---- MODULE Spec2Model ----
(***************************************************************************)
(* Verification model of the StartupAI serverless backend:                 *)
(*   - the Gate Scoring engine (backend/src/gate_scoring.py, exercised by  *)
(*     backend/tests/test_gate_scoring.py and called by gate-evaluate.py); *)
(*   - the Conversation Stage engine (netlify/functions/crew_runtime.py).  *)
(*                                                                         *)
(* Units.  quality_score and min_evidence_quality are hundredths           *)
(* (0.70 is 70).  Readiness scores are thousandths, rounded down.          *)
(* stage_progress is a percentage (0..100); overall_progress is in         *)
(* hundredths of a percent (100.0 is 10000), so that x * 0.14 is exact.    *)
(***************************************************************************)
EXTENDS Integers, Sequences, FiniteSets, TLC

VARIABLES
    DEFAULT_GATE_CRITERIA, \* gate scoring: the criteria table of gate_scoring.py
    gate_stage,      \* gate scoring: the project's current GateStage
    tool_runs,       \* evidence store tool: the calls made of EvidenceStoreTool._run
    evidence,        \* gate scoring: the project's evidence list
    session_stage,   \* conversation: the caller's stored current_stage
    history,         \* conversation: the caller's stored conversation_history
    started,         \* conversation: start_session has been called
    request,         \* conversation: the arguments of the last engine call
    result,          \* conversation: the last engine result returned
    now,             \* the clock read by datetime.utcnow() and time.time()
    rate_limit_store, \* crew-analyze: request times per rate-limit key
    project,         \* gate-evaluate: the project's row of the projects table
    event,           \* handlers: the last event handled
    response,        \* handlers: the last response returned
    calls,           \* handlers: what the last invocation called, in order
    gate_task,       \* gate-evaluate: the request in flight and the rows it fetched
    kv,              \* onboarding agent: the "onboarding_sessions" KV bucket
    tasks            \* onboarding agent: the requests in flight, by request

gateVars == <<DEFAULT_GATE_CRITERIA, gate_stage, tool_runs, evidence>>
convVars == <<session_stage, history, started, request, result>>
handlerVars == <<rate_limit_store, project, event, response, calls, gate_task>>
agentVars == <<kv, tasks>>
vars == <<DEFAULT_GATE_CRITERIA, gate_stage, tool_runs, evidence, session_stage, history, started, request, result,
          now, rate_limit_store, project, event, response, calls, gate_task, kv, tasks>>

(***************************************************************************)
(* Bounds                                                                  *)
(***************************************************************************)
MaxEvidence == 13
MaxHistory == 10
MaxTime == 2
MaxRequests == 7
MaxRows == 1
MaxToolRuns == 1
MaxCalls == 6
MaxTurns == 12
MaxClock == 3
RateLimit == 2
RateWindow == 2

(***************************************************************************)
(* Generic helpers                                                         *)
(***************************************************************************)
Min(a, b) == IF a < b THEN a ELSE b

Range(s) == { s[i] : i \in 1..Len(s) }

RECURSIVE SumQuality(_)
SumQuality(ev) ==
    IF ev = <<>> THEN 0 ELSE ev[1].quality_score + SumQuality(Tail(ev))

RECURSIVE CountWhere(_, _, _)
CountWhere(ev, field, value) ==
    IF ev = <<>> THEN 0
    ELSE (IF ev[1][field] = value THEN 1 ELSE 0) + CountWhere(Tail(ev), field, value)

(***************************************************************************)
(* Gate Scoring engine                                                     *)
(***************************************************************************)
GateStage == <<"DESIRABILITY", "FEASIBILITY", "VIABILITY", "SCALE">>

GateStages == Range(GateStage)

GateStatus == {"Passed", "Failed", "Pending"}

EvidenceStrength == {"weak", "medium", "strong"}

None == "None"

\* The evidence records a project may hold.  Every scoring operation is a
\* count, a sum or a set over the list, so the list is kept in the order
\* of this catalogue.
EvidenceCatalogue ==
    << [type |-> "interview",  strength |-> "strong", quality_score |-> 90],
       [type |-> "analytics",  strength |-> "medium", quality_score |-> 70],
       [type |-> "experiment", strength |-> "strong", quality_score |-> 90],
       [type |-> "experiment", strength |-> "medium", quality_score |-> 70],
       [type |-> "experiment", strength |-> "medium", quality_score |-> 69],
       [type |-> "desk",       strength |-> "weak",   quality_score |-> 60] >>

CatalogueIndex(e) == CHOOSE i \in 1..Len(EvidenceCatalogue) : EvidenceCatalogue[i] = e

RequiredTypes == <<"interview", "analytics", "experiment">>

\* The criteria of one stage; min_evidence_quality is in hundredths.
GateCriteria(min_experiments, min_evidence_quality, min_total_evidence, required_evidence_types, weak, medium, strong) ==
    [ min_experiments |-> min_experiments,
      min_evidence_quality |-> min_evidence_quality,
      min_total_evidence |-> min_total_evidence,
      required_evidence_types |-> required_evidence_types,
      strength_mix |-> [weak |-> weak, medium |-> medium, strong |-> strong] ]

\* The tables DEFAULT_GATE_CRITERIA may be.  gate_scoring.py is not among
\* the sources, and neither the specification nor the tests give the table.
\* What they give: DESIRABILITY asks for 5 experiments, for a mean quality of
\* 0.70 and for analytics among its types, and is passed by 11 records of
\* which 1 is weak, 7 are medium and 3 are strong; every later stage asks for
\* more than the stage before it on min_experiments, min_evidence_quality and
\* min_total_evidence, and for no less on the other numbers.  Three tables
\* that meet this are taken: one with even steps, one with the least steps
\* and no demand on totals, types or strengths beyond the above, one with
\* steep steps.
GateCriteriaTables ==
    { [ DESIRABILITY |-> GateCriteria(5, 70, 10, RequiredTypes, 0, 3, 2),
        FEASIBILITY  |-> GateCriteria(6, 75, 11, RequiredTypes, 0, 3, 2),
        VIABILITY    |-> GateCriteria(7, 80, 12, RequiredTypes, 0, 3, 2),
        SCALE        |-> GateCriteria(8, 85, 13, RequiredTypes, 0, 3, 2) ],
      [ DESIRABILITY |-> GateCriteria(5, 70, 1, << "analytics" >>, 0, 0, 0),
        FEASIBILITY  |-> GateCriteria(6, 71, 2, << "analytics" >>, 0, 0, 0),
        VIABILITY    |-> GateCriteria(7, 72, 3, << "analytics" >>, 0, 0, 0),
        SCALE        |-> GateCriteria(8, 73, 4, << "analytics" >>, 0, 0, 0) ],
      [ DESIRABILITY |-> GateCriteria(5, 70, 11, RequiredTypes, 1, 5, 3),
        FEASIBILITY  |-> GateCriteria(7, 80, 12, RequiredTypes, 1, 5, 3),
        VIABILITY    |-> GateCriteria(9, 85, 13, RequiredTypes, 1, 6, 4),
        SCALE        |-> GateCriteria(11, 90, 15, RequiredTypes, 2, 7, 5) ] }

\* calculate_evidence_quality is the mean sum/len; the model keeps the sum
\* and the length and compares sum >= threshold * len, which is exact.
calculate_evidence_quality(ev) ==
    IF ev = <<>> THEN [sum |-> 0, count |-> 1]
    ELSE [sum |-> SumQuality(ev), count |-> Len(ev)]

count_experiments(ev) == CountWhere(ev, "type", "experiment")

get_evidence_types(ev) == { ev[i].type : i \in 1..Len(ev) }

count_strength_mix(ev) ==
    [ s \in EvidenceStrength |-> CountWhere(ev, "strength", s) ]

\* mean quality > min_evidence_quality: the boundary value is rejected
quality_meets_strict(quality, min_quality) ==
    quality.sum > min_quality * quality.count

\* mean quality >= min_evidence_quality (the boundary value passes)
quality_meets(quality, min_quality) ==
    quality.sum >= min_quality * quality.count

missing_types(ev, criteria) ==
    SelectSeq(criteria.required_evidence_types,
              LAMBDA t : t \notin get_evidence_types(ev))

StrengthOrder == <<"weak", "medium", "strong">>

reason_experiments(ev, criteria) ==
    IF count_experiments(ev) < criteria.min_experiments
    THEN << [check |-> "Insufficient experiments",
             needed |-> criteria.min_experiments, got |-> count_experiments(ev)] >>
    ELSE << >>

reason_quality(ev, criteria) ==
    IF ~ quality_meets(calculate_evidence_quality(ev), criteria.min_evidence_quality)
    THEN << [check |-> "Evidence quality too low",
             needed |-> criteria.min_evidence_quality,
             got |-> calculate_evidence_quality(ev)] >>
    ELSE << >>

reason_total(ev, criteria) ==
    IF Len(ev) < criteria.min_total_evidence
    THEN << [check |-> "Insufficient evidence",
             needed |-> criteria.min_total_evidence, got |-> Len(ev)] >>
    ELSE << >>

reason_types(ev, criteria) ==
    IF missing_types(ev, criteria) # << >>
    THEN << [check |-> "Missing required evidence types",
             missing |-> missing_types(ev, criteria)] >>
    ELSE << >>

short_strengths(ev, criteria) ==
    SelectSeq(StrengthOrder,
              LAMBDA s : count_strength_mix(ev)[s] < criteria.strength_mix[s])

reason_strength(ev, criteria) ==
    [ i \in 1..Len(short_strengths(ev, criteria)) |->
        [check |-> "Insufficient strength mix",
         strength |-> short_strengths(ev, criteria)[i],
         needed |-> criteria.strength_mix[short_strengths(ev, criteria)[i]],
         got |-> count_strength_mix(ev)[short_strengths(ev, criteria)[i]]] ]

\* A short-circuiting evaluation: only the first failing check is reported.
gate_reasons_first_only(ev, criteria) ==
    IF reason_experiments(ev, criteria) # << >> THEN reason_experiments(ev, criteria)
    ELSE IF reason_quality(ev, criteria) # << >> THEN reason_quality(ev, criteria)
    ELSE IF reason_total(ev, criteria) # << >> THEN reason_total(ev, criteria)
    ELSE IF reason_types(ev, criteria) # << >> THEN reason_types(ev, criteria)
    ELSE reason_strength(ev, criteria)

\* The reasons of the five checks, each appended independently of the others.
gate_reasons(ev, criteria) ==
    reason_experiments(ev, criteria) \o reason_quality(ev, criteria)
      \o reason_total(ev, criteria) \o reason_types(ev, criteria)
      \o reason_strength(ev, criteria)

\* Empty evidence answered with a reason instead of an empty list.
evaluate_gate_with_pending_reason(stage, ev, criteria) ==
    IF ev = <<>>
    THEN [status |-> "Pending", reasons |-> << [check |-> "No evidence collected yet"] >>]
    ELSE LET reasons == gate_reasons(ev, criteria)
         IN [status |-> IF reasons = << >> THEN "Passed" ELSE "Failed",
             reasons |-> reasons]

evaluate_gate_with(stage, ev, criteria) ==
    IF ev = <<>> THEN [status |-> "Pending", reasons |-> << >>]
    ELSE LET reasons == gate_reasons(ev, criteria)
         IN [status |-> IF reasons = << >> THEN "Passed" ELSE "Failed",
             reasons |-> reasons]

evaluate_gate(stage, ev) == evaluate_gate_with(stage, ev, DEFAULT_GATE_CRITERIA[stage])

StageIndex(stage) == CHOOSE i \in 1..Len(GateStage) : GateStage[i] = stage

\* The successor taken modulo the number of stages: SCALE wraps around.
get_next_stage_wrap(stage) ==
    GateStage[(StageIndex(stage) % Len(GateStage)) + 1]

get_next_stage(stage) ==
    IF StageIndex(stage) < Len(GateStage) THEN GateStage[StageIndex(stage) + 1] ELSE None

can_progress_to_next_stage(stage, status) ==
    IF status # "Passed" THEN FALSE
    ELSE IF stage = "SCALE" THEN FALSE
    ELSE TRUE

AllTypes == {"interview", "analytics", "experiment", "desk"}

\* The count sub-scores left uncapped.
calculate_gate_readiness_score_uncapped(stage, ev) ==
    IF ev = <<>> THEN 0
    ELSE
      LET c == DEFAULT_GATE_CRITERIA[stage]
          n == Len(ev)
          T == c.min_total_evidence
          E == c.min_experiments
          R == Len(c.required_evidence_types)
          covered == R - Len(missing_types(ev, c))
          X == n * E * R + count_experiments(ev) * T * R + covered * T * E
          num == X * 100 * n + SumQuality(ev) * T * E * R
          den == T * E * R * 100 * n
      IN (num * 250) \div den

\* Type coverage measured against every known type instead of the required ones.
calculate_gate_readiness_score_all_types(stage, ev) ==
    IF ev = <<>> THEN 0
    ELSE
      LET c == DEFAULT_GATE_CRITERIA[stage]
          n == Len(ev)
          T == c.min_total_evidence
          E == c.min_experiments
          R == Cardinality(AllTypes)
          covered == Cardinality(get_evidence_types(ev) \cap AllTypes)
          X == Min(n, T) * E * R + Min(count_experiments(ev), E) * T * R
                 + covered * T * E
          num == X * 100 * n + SumQuality(ev) * T * E * R
          den == T * E * R * 100 * n
      IN (num * 250) \div den

\* Mean of four sub-scores, in thousandths rounded down:
\*   min(n / min_total, 1), min(experiments / min_experiments, 1),
\*   mean quality, covered required types / required types.
calculate_gate_readiness_score(stage, ev) ==
    IF ev = <<>> THEN 0
    ELSE
      LET c == DEFAULT_GATE_CRITERIA[stage]
          n == Len(ev)
          T == c.min_total_evidence
          E == c.min_experiments
          R == Len(c.required_evidence_types)
          covered == R - Len(missing_types(ev, c))
          \* 4 * score = X / (T*E*R) + S / (100*n)
          X == Min(n, T) * E * R + Min(count_experiments(ev), E) * T * R
                 + covered * T * E
          num == X * 100 * n + SumQuality(ev) * T * E * R
          den == T * E * R * 100 * n
      IN (num * 250) \div den

(***************************************************************************)
(* Gate scoring as a state machine: a project sits at a stage, collects    *)
(* evidence, and moves to the next stage when its gate allows it.          *)
(***************************************************************************)
ConvIdle ==
    /\ session_stage = 1
    /\ history = << >>
    /\ started = FALSE
    /\ request = [kind |-> "none"]
    /\ result = [kind |-> "none"]

\* No invocation of a function handler yet: empty module-level stores.
\* The requests the onboarding agent may have in flight at once.
Requests == {1, 2}

NoSession == [kind |-> "none"]
NoRequest == [action |-> "none"]
NoResponse == [success |-> "none"]

\* A request slot with no request in it.
IdleTask == [pc |-> "idle", request |-> NoRequest, session_data |-> NoSession,
             response |-> NoResponse]

\* No onboarding session is stored and no request is in flight.
AgentIdle ==
    /\ kv = << >>
    /\ tasks = [i \in Requests |-> IdleTask]

\* No gate-evaluate request is in flight and none has fetched rows.
IdleGateTask == [pc |-> "idle", evidence_list |-> << >>]

HandlerIdle ==
    /\ now = 0
    /\ rate_limit_store = << >>
    /\ project = [kind |-> "none"]
    /\ event = [kind |-> "none"]
    /\ response = [kind |-> "none"]
    /\ calls = << >>
    /\ gate_task = IdleGateTask

InitGate ==
    /\ DEFAULT_GATE_CRITERIA \in GateCriteriaTables
    /\ gate_stage \in GateStages
    /\ tool_runs = 0
    /\ evidence = << >>
    /\ ConvIdle
    /\ HandlerIdle
    /\ AgentIdle

AddEvidence(e) ==
    /\ Len(evidence) < MaxEvidence
    /\ IF evidence = << >> THEN TRUE
       ELSE CatalogueIndex(evidence[Len(evidence)]) <= CatalogueIndex(e)
    /\ evidence' = Append(evidence, e)
    /\ UNCHANGED <<DEFAULT_GATE_CRITERIA, gate_stage, tool_runs, convVars, now, handlerVars, agentVars>>

Progress ==
    /\ can_progress_to_next_stage(gate_stage, evaluate_gate(gate_stage, evidence).status)
    /\ gate_stage' = get_next_stage(gate_stage)
    /\ UNCHANGED <<DEFAULT_GATE_CRITERIA, tool_runs, evidence, convVars, now, handlerVars, agentVars>>

NextGate ==
    \/ \E e \in Range(EvidenceCatalogue) : AddEvidence(e)
    \/ Progress

SpecGate == InitGate /\ [][NextGate]_vars

(***************************************************************************)
(* Conversation Stage engine (crew_runtime.py)                             *)
(***************************************************************************)
\* progress_threshold of CONVERSATION_STAGES[1..7]
CONVERSATION_STAGES ==
    << [name |-> "Welcome & Introduction",  progress_threshold |-> 80],
       [name |-> "Customer Discovery",      progress_threshold |-> 75],
       [name |-> "Problem Definition",      progress_threshold |-> 80],
       [name |-> "Solution Validation",     progress_threshold |-> 75],
       [name |-> "Competitive Analysis",    progress_threshold |-> 70],
       [name |-> "Resources & Constraints", progress_threshold |-> 75],
       [name |-> "Goals & Next Steps",      progress_threshold |-> 85] >>

PLAN_PERSONALITIES ==
    [ trial |-> "Alex", sprint |-> "Jordan", founder |-> "Morgan", enterprise |-> "Taylor" ]

PlanTypes == {"trial", "sprint", "founder", "enterprise", "unknown"}

CLARITY_SCORES == [high |-> 92, medium |-> 68, low |-> 38]

COMPLETENESS_SCORES == [complete |-> 100, partial |-> 66, insufficient |-> 35]

PAIN_WORDS ==
    { "painful", "frustrating", "difficult", "expensive", "time-consuming", "annoying" }

\* The texts BUDGET_PATTERN, a dollar sign before digits and commas, finds
\* in the messages modelled.
BudgetTexts == { "$5,000", "$12,500" }

\* The strings the stage branches of process_message look for anywhere in
\* the lower-cased message, inside a longer word too.
Keywords ==
    { "app", "software", "service", "consulting", "business", "company",
      "people", "individual", "unique", "different", "no competition",
      "no one else", "thousand", "budget" } \cup PAIN_WORDS

\* A message is its text as far as the engine reads it: pad whitespace
\* characters around chars other characters, whether the text holds one of
\* the SPECIFICITY_PATTERN words as a whole word, and words: which of the
\* Keywords the lower-cased text holds as a substring, with the text of the
\* first match of BUDGET_PATTERN when there is one.
Messages ==
    { [pad |-> 0, chars |-> 0,   marker |-> FALSE, words |-> {}],
      [pad |-> 0, chars |-> 12,  marker |-> FALSE, words |-> {}],
      [pad |-> 0, chars |-> 12,  marker |-> TRUE,  words |-> {}],
      [pad |-> 5, chars |-> 48,  marker |-> FALSE, words |-> {}],
      [pad |-> 0, chars |-> 50,  marker |-> TRUE,  words |-> {}],
      [pad |-> 0, chars |-> 51,  marker |-> FALSE, words |-> {}],
      [pad |-> 0, chars |-> 51,  marker |-> TRUE,  words |-> {}],
      [pad |-> 0, chars |-> 300, marker |-> TRUE,  words |-> {}],
      [pad |-> 0, chars |-> 30,  marker |-> FALSE, words |-> {"software", "service"}],
      [pad |-> 0, chars |-> 30,  marker |-> FALSE, words |-> {"service", "people"}],
      [pad |-> 0, chars |-> 30,  marker |-> FALSE, words |-> {"business", "people"}],
      [pad |-> 0, chars |-> 30,  marker |-> FALSE, words |-> {"painful", "unique"}],
      [pad |-> 0, chars |-> 30,  marker |-> FALSE, words |-> {"no competition", "budget"}],
      [pad |-> 0, chars |-> 30,  marker |-> FALSE, words |-> {"$5,000", "budget"}],
      [pad |-> 0, chars |-> 52,  marker |-> FALSE,
       words |-> {"app", "company", "difficult", "different", "no one else", "thousand"}],
      [pad |-> 0, chars |-> 39,  marker |-> FALSE,
       words |-> {"consulting", "individual", "expensive", "$12,500"}] }

\* (message or "").strip()
message_clean(message) ==
    [chars |-> message.chars, marker |-> message.marker, words |-> message.words]

\* word in message_lower
mentions(message, word) == word \in message_clean(message).words

\* any(word in message_lower for word in PAIN_WORDS)
has_pain_language(message) == \E word \in PAIN_WORDS : mentions(message, word)

\* BUDGET_PATTERN.search(message_clean): the text of the first match, "" for
\* no match.
budget_match(message) ==
    LET found == message_clean(message).words \cap BudgetTexts
    IN IF found = {} THEN "" ELSE CHOOSE text \in found : TRUE

\* max(lower, min(upper, value))
clamp(value, lower, upper) ==
    LET m == Min(upper, value) IN IF lower > m THEN lower ELSE m

\* A message of exactly 50 characters counts as detailed.
has_details_inclusive(message) == message_clean(message).chars >= 50

has_details(message) == message_clean(message).chars > 50

has_specifics(message) == message_clean(message).marker

\* The last stage falls outside the accepted range and is served as stage 1.
stage_id_of_short_range(current_stage) ==
    IF current_stage \in 1..(Len(CONVERSATION_STAGES) - 1) THEN current_stage ELSE 1

stage_id_of(current_stage) ==
    IF current_stage \in 1..Len(CONVERSATION_STAGES) THEN current_stage ELSE 1

\* stage_progress without the min(100, ...) clamp
stage_progress_of_unclamped(message, history_len) ==
    history_len * 15
      + (IF has_details(message) THEN 20 ELSE 10)
      + (IF has_specifics(message) THEN 15 ELSE 0)

\* The turns already held do not count.
stage_progress_of_message_only(message, history_len) ==
    Min(100, (IF has_details(message) THEN 20 ELSE 10)
             + (IF has_specifics(message) THEN 15 ELSE 0))

stage_progress_of(message, history_len) ==
    Min(100, history_len * 15
             + (IF has_details(message) THEN 20 ELSE 10)
             + (IF has_specifics(message) THEN 15 ELSE 0))

\* min(100.0, (stage_id - 1) * 14 + stage_progress * 0.14), in hundredths
overall_progress_of(stage_id, stage_progress) ==
    Min(10000, (stage_id - 1) * 1400 + stage_progress * 14)

is_stage_complete_of(stage_id, stage_progress) ==
    stage_progress >= CONVERSATION_STAGES[stage_id].progress_threshold

next_stage_of(stage_id, is_stage_complete) ==
    IF is_stage_complete /\ stage_id < Len(CONVERSATION_STAGES)
    THEN stage_id + 1 ELSE stage_id

\* The two follow-up questions of each stage (their opening words).
FollowUpComplete ==
    << "Who do you envision as your ideal customer?",
       "Perfect! Now let's get specific about the problem you're solving.",
       "Excellent! Now I'd love to understand your solution.",
       "Great solution! Now let's look at the competitive landscape.",
       "Perfect! Now let's talk resources.",
       "Excellent! For our final topic, let's set some strategic goals.",
       "Before I generate your personalized strategic report, is there anything else" >>

FollowUpContinue ==
    << "Can you tell me more about what inspired this idea?",
       "Can you be more specific about this customer segment?",
       "Help me understand the impact of this problem.",
       "What makes your solution unique?",
       "What would convince a customer to switch from their current solution to yours?",
       "What skills, connections, or assets do you already have",
       "How will you measure success?" >>

follow_up_question_of(stage_id, is_stage_complete) ==
    IF is_stage_complete THEN FollowUpComplete[stage_id] ELSE FollowUpContinue[stage_id]

clarity_label_of(message) ==
    IF has_details(message) /\ has_specifics(message) THEN "high"
    ELSE IF has_details(message) THEN "medium" ELSE "low"

\* A progress of exactly 50 already counts as partial.
completeness_label_of_inclusive(is_stage_complete, stage_progress) ==
    IF is_stage_complete THEN "complete"
    ELSE IF stage_progress >= 50 THEN "partial" ELSE "insufficient"

completeness_label_of(is_stage_complete, stage_progress) ==
    IF is_stage_complete THEN "complete"
    ELSE IF stage_progress > 50 THEN "partial" ELSE "insufficient"

\* The closing question is returned also when the stage advances.
returned_follow_up_kept(is_stage_complete, next_stage, stage_id, question) == question

\* "" if (is_stage_complete and next_stage > stage_id) else follow_up_question
returned_follow_up(is_stage_complete, next_stage, stage_id, question) ==
    IF is_stage_complete /\ next_stage > stage_id THEN "" ELSE question

\* round(x / 3, 2) for x in hundredths
RoundThird(x) == (2 * x + 3) \div 6

\* A brief field holding a fixed value.
BriefValue(field, value) == [field |-> field, value |-> value, chars |-> 0]

\* A brief field holding the first limit characters of the stripped message.
BriefText(field, message, limit) ==
    [field |-> field, value |-> "message_clean",
     chars |-> Min(message_clean(message).chars, limit)]

\* brief_update of each stage branch, as the set of its items
brief_update_of(stage_id, message) ==
    CASE stage_id = 1 ->
           IF mentions(message, "app") \/ mentions(message, "software")
           THEN {BriefValue("business_stage", "idea"), BriefValue("solution_type", "software")}
           ELSE IF mentions(message, "service") \/ mentions(message, "consulting")
           THEN {BriefValue("business_stage", "idea"), BriefValue("solution_type", "service")}
           ELSE {}
      [] stage_id = 2 ->
           IF mentions(message, "business") \/ mentions(message, "company")
           THEN {BriefValue("customer_type", "b2b")}
           ELSE IF mentions(message, "people") \/ mentions(message, "individual")
           THEN {BriefValue("customer_type", "b2c")}
           ELSE {}
      [] stage_id = 3 ->
           { BriefValue("problem_pain_level",
                        IF has_pain_language(message) THEN "8" ELSE "6"),
             BriefText("problem_description", message, 500) }
      [] stage_id = 4 -> { BriefText("solution_description", message, 500) }
      [] stage_id = 5 -> {}
      [] stage_id = 6 ->
           IF budget_match(message) # ""
           THEN {BriefValue("budget_range", budget_match(message))}
           ELSE IF mentions(message, "thousand") \/ mentions(message, "budget")
           THEN {BriefValue("budget_range", "specified")}
           ELSE {}
      [] stage_id = 7 -> { BriefText("three_month_goals", message, 200) }

\* agent_response of each stage branch, as the sequence of its sentences
\* (their opening words)
agent_response_of(stage_id, message, is_stage_complete) ==
    CASE stage_id = 1 ->
           << IF mentions(message, "app") \/ mentions(message, "software")
              THEN "A software solution"
              ELSE IF mentions(message, "service") \/ mentions(message, "consulting")
              THEN "A service-based business"
              ELSE "Thank you for sharing that with me!" >>
           \o (IF is_stage_complete THEN << "Now that I understand your core concept" >>
               ELSE << >>)
      [] stage_id = 2 ->
           (IF mentions(message, "business") \/ mentions(message, "company")
            THEN << "B2B customers can be fantastic" >>
            ELSE IF mentions(message, "people") \/ mentions(message, "individual")
            THEN << "Consumer markets offer great opportunities" >>
            ELSE << >>)
           \o << "Understanding your customers deeply is crucial for success." >>
      [] stage_id = 3 ->
           << IF has_pain_language(message) THEN "I can tell this is a real pain point"
              ELSE "Thanks for explaining that." >>
      [] stage_id = 4 ->
           << IF mentions(message, "unique") \/ mentions(message, "different")
              THEN "I love that you're thinking about differentiation!"
              ELSE "That's a solid approach to solving the problem." >>
      [] stage_id = 5 ->
           << "Understanding the competition helps you position yourself effectively" >>
           \o (IF mentions(message, "no competition") \/ mentions(message, "no one else")
               THEN << "While it might seem like there's no direct competition" >>
               ELSE << >>)
      [] stage_id = 6 ->
           (IF budget_match(message) # "" \/ mentions(message, "thousand")
               \/ mentions(message, "budget")
            THEN << "Having a clear budget helps with planning and prioritization." >>
            ELSE << >>)
           \o << "Understanding your resources helps us create a realistic roadmap." >>
      [] stage_id = 7 ->
           << "Setting clear, measurable goals is crucial" >>
           \o (IF is_stage_complete THEN << "Fantastic! We've covered all the key areas." >>
               ELSE << >>)

\* suggestions, as the sequence of their opening words
suggestions_of(message, stage_progress) ==
    (IF ~has_details(message) THEN << "Try to provide more specific details" >> ELSE << >>)
    \o (IF stage_progress < 50 THEN << "Consider sharing examples" >> ELSE << >>)

quality_tags_of(clarity_label, completeness_label) ==
    (IF clarity_label = "low" THEN << "clarity_low" >> ELSE << >>)
    \o (IF completeness_label = "insufficient" THEN << "incomplete" >> ELSE << >>)

\* _build_stage_snapshot; utcnow is the value datetime.utcnow() returns, the
\* sorted list of distinct keys is their set, and the excerpt is its length.
build_stage_snapshot(stage_id, coverage, clarity_label, completeness_label, detail_score, brief_update, raw_message_chars, utcnow) ==
    [ stage |-> stage_id,
      coverage |-> clamp(coverage, 0, 100),
      quality |->
          [ clarity |-> [label |-> clarity_label, score |-> CLARITY_SCORES[clarity_label]],
            completeness |-> [label |-> completeness_label,
                              score |-> COMPLETENESS_SCORES[completeness_label]],
            detail_score |-> detail_score ],
      brief_fields |-> { item.field : item \in brief_update },
      last_message_excerpt |-> Min(raw_message_chars, 240),
      updated_at |-> utcnow,
      notes |-> IF completeness_label = "complete" THEN "Stage advanced"
                ELSE "Additional detail captured" ]

\* The workflow is triggered by the completion of any stage.
trigger_workflow_of_any_stage(stage_id, is_stage_complete) == is_stage_complete

\* "trigger_workflow": stage_id == 7 and is_stage_complete
trigger_workflow_of(stage_id, is_stage_complete) == stage_id = 7 /\ is_stage_complete

process_message(message, current_stage, conversation_history, utcnow) ==
    LET stage_id == stage_id_of(current_stage)
        stage_progress == stage_progress_of(message, Len(conversation_history))
        overall_progress == overall_progress_of(stage_id, stage_progress)
        is_stage_complete == is_stage_complete_of(stage_id, stage_progress)
        next_stage == next_stage_of(stage_id, is_stage_complete)
        clarity_label == clarity_label_of(message)
        completeness_label == completeness_label_of(is_stage_complete, stage_progress)
        detail_score == stage_progress
        brief_update == brief_update_of(stage_id, message)
    IN [ kind |-> "message",
         agent_response |-> agent_response_of(stage_id, message, is_stage_complete),
         follow_up_question |->
             returned_follow_up(is_stage_complete, next_stage, stage_id,
                                follow_up_question_of(stage_id, is_stage_complete)),
         brief_update |-> brief_update,
         quality_signals |->
             [ clarity |-> [label |-> clarity_label, score |-> CLARITY_SCORES[clarity_label]],
               completeness |-> [label |-> completeness_label,
                                 score |-> COMPLETENESS_SCORES[completeness_label]],
               detail_score |-> detail_score,
               overall |-> RoundThird(CLARITY_SCORES[clarity_label]
                                      + COMPLETENESS_SCORES[completeness_label]
                                      + detail_score),
               suggestions |-> suggestions_of(message, stage_progress),
               quality_tags |-> quality_tags_of(clarity_label, completeness_label) ],
         stage_snapshot |->
             build_stage_snapshot(stage_id, detail_score, clarity_label, completeness_label,
                                  detail_score, brief_update,
                                  message_clean(message).chars, utcnow),
         stage_state |->
             [ previous_stage |-> stage_id,
               current_stage |-> next_stage,
               stage_name |-> CONVERSATION_STAGES[stage_id].name,
               next_stage_name |-> IF next_stage > stage_id
                                   THEN CONVERSATION_STAGES[next_stage].name
                                   ELSE CONVERSATION_STAGES[stage_id].name,
               stage_progress |-> IF next_stage > stage_id THEN 0 ELSE stage_progress,
               overall_progress |-> overall_progress,
               is_stage_complete |-> is_stage_complete,
               total_stages |-> Len(CONVERSATION_STAGES) ],
         system_actions |->
             [ trigger_workflow |-> trigger_workflow_of(stage_id, is_stage_complete),
               save_checkpoint |-> is_stage_complete,
               request_clarification |-> stage_progress < 30 \/ clarity_label = "low",
               needs_review |-> clarity_label = "low" \/ completeness_label = "insufficient" ],
         conversation_metrics |->
             [ stage_progress |-> IF next_stage = stage_id THEN stage_progress ELSE 0,
               overall_progress |-> overall_progress,
               clarity_label |-> clarity_label,
               completeness_label |-> completeness_label ] ]

\* user_context as a caller passes it: absent, an empty object, or data
UserContexts == {None, "{}", "{referral}"}

\* A plan type without a personality of its own starts with weaker signals.
start_session_by_plan(plan_type, user_context, utcnow) ==
    [ kind |-> "start",
      persona |-> IF plan_type \in DOMAIN PLAN_PERSONALITIES
                  THEN PLAN_PERSONALITIES[plan_type] ELSE PLAN_PERSONALITIES["trial"],
      stage_snapshot |->
          build_stage_snapshot(1, 0, "medium", "partial", 5, {}, 0, utcnow),
      user_context |-> IF user_context = None THEN "{}" ELSE user_context,
      stage_state |->
          [ current_stage |-> 1,
            stage_name |-> CONVERSATION_STAGES[1].name,
            total_stages |-> Len(CONVERSATION_STAGES),
            stage_progress |-> 0,
            overall_progress |-> 0 ],
      quality_signals |->
          LET completeness_label == IF plan_type \in DOMAIN PLAN_PERSONALITIES
                                    THEN "partial" ELSE "insufficient"
          IN [ clarity |-> [label |-> "medium", score |-> CLARITY_SCORES["medium"]],
               completeness |-> [label |-> completeness_label,
                                 score |-> COMPLETENESS_SCORES[completeness_label]],
               detail_score |-> 5,
               overall |-> RoundThird(CLARITY_SCORES["medium"]
                                      + COMPLETENESS_SCORES[completeness_label] + 5),
               quality_tags |-> << "needs_detail" >> ] ]

start_session(plan_type, user_context, utcnow) ==
    [ kind |-> "start",
      persona |-> IF plan_type \in DOMAIN PLAN_PERSONALITIES
                  THEN PLAN_PERSONALITIES[plan_type] ELSE PLAN_PERSONALITIES["trial"],
      stage_snapshot |->
          build_stage_snapshot(1, 0, "medium", "partial", 5, {}, 0, utcnow),
      user_context |-> IF user_context = None THEN "{}" ELSE user_context,
      stage_state |->
          [ current_stage |-> 1,
            stage_name |-> CONVERSATION_STAGES[1].name,
            total_stages |-> Len(CONVERSATION_STAGES),
            stage_progress |-> 0,
            overall_progress |-> 0 ],
      quality_signals |->
          [ clarity |-> [label |-> "medium", score |-> CLARITY_SCORES["medium"]],
            completeness |-> [label |-> "partial", score |-> COMPLETENESS_SCORES["partial"]],
            detail_score |-> 5,
            overall |-> RoundThird(CLARITY_SCORES["medium"] + COMPLETENESS_SCORES["partial"] + 5),
            quality_tags |-> << "needs_detail" >> ] ]

(***************************************************************************)
(* A conversation session as its caller drives it: the caller keeps the    *)
(* current stage returned by the engine and its own list of turns, and     *)
(* sends the stage back with every message together with the most recent   *)
(* sent turns of its list as conversation_history.                         *)
(***************************************************************************)
\* The conversation functions and the agent do not import gate_scoring.
GateIdle ==
    /\ DEFAULT_GATE_CRITERIA = None
    /\ gate_stage = "DESIRABILITY"
    /\ tool_runs = 0
    /\ evidence = << >>

InitConv ==
    /\ GateIdle
    /\ ConvIdle
    /\ HandlerIdle
    /\ AgentIdle

StartSession(plan_type, user_context) ==
    /\ result' = start_session(plan_type, user_context, now)
    /\ session_stage' = start_session(plan_type, user_context, now).stage_state.current_stage
    /\ history' = << >>
    /\ started' = TRUE
    /\ request' = [kind |-> "start", plan_type |-> plan_type, user_context |-> user_context]
    /\ UNCHANGED <<gateVars, now, handlerVars, agentVars>>

\* bool(message): a string that is not empty
message_truthy(message) == message.pad + message.chars > 0

LastTurns(h, sent) == SubSeq(h, Len(h) - sent + 1, Len(h))

\* A request without a message is refused before the engine is called
\* ("Missing required fields"): nothing is returned and the caller keeps
\* its stage and its turns.
ProcessMessage(message, sent) ==
    /\ started
    /\ message_truthy(message)
    /\ Len(history) < MaxHistory
    /\ sent \in 0..Len(history)
    /\ LET r == process_message(message, session_stage, LastTurns(history, sent), now)
       IN /\ result' = r
          /\ request' = [kind |-> "message", message |-> message,
                         current_stage |-> session_stage, history_len |-> sent]
          /\ session_stage' = r.stage_state.current_stage
          /\ history' = Append(history, [role |-> "user", stage |-> r.stage_state.previous_stage])
    /\ UNCHANGED <<started, gateVars, now, handlerVars, agentVars>>

NextConv ==
    \/ \E p \in PlanTypes, c \in UserContexts : StartSession(p, c)
    \/ \E m \in Messages, sent \in 0..MaxHistory : ProcessMessage(m, sent)

Spec == InitConv /\ [][NextConv]_vars

\* One session from its start: the caller appends every processed turn to
\* the history, sends the whole history back with the next message and
\* feeds back the stage returned, and goes on sending messages.
OpenSession(plan_type, user_context) ==
    /\ ~started
    /\ StartSession(plan_type, user_context)

SendTurn(message) ==
    /\ started
    /\ Len(history) < MaxTurns
    /\ LET r == process_message(message, session_stage, history, now)
       IN /\ result' = r
          /\ request' = [kind |-> "message", message |-> message,
                         current_stage |-> session_stage, history_len |-> Len(history)]
          /\ session_stage' = r.stage_state.current_stage
          /\ history' = Append(history, [role |-> "user", stage |-> r.stage_state.previous_stage])
    /\ UNCHANGED <<started, gateVars, now, handlerVars, agentVars>>

NextSession ==
    \/ \E p \in PlanTypes, c \in UserContexts : OpenSession(p, c)
    \/ \E m \in Messages : SendTurn(m)

SpecSession == InitConv /\ [][NextSession]_vars /\ WF_vars(NextSession)

(***************************************************************************)
(* The engine called directly with any arguments, outside a session.       *)
(***************************************************************************)
StageInputs == 0..(Len(CONVERSATION_STAGES) + 1)

Turns(n) == [ i \in 1..n |-> [role |-> "user", stage |-> 1] ]

CallEngine(message, current_stage, n) ==
    /\ result' = process_message(message, current_stage, Turns(n), now)
    /\ request' = [kind |-> "message", message |-> message,
                   current_stage |-> current_stage, history_len |-> n]
    /\ UNCHANGED <<session_stage, history, started, gateVars, now, handlerVars, agentVars>>

CallStart(plan_type, user_context) ==
    /\ result' = start_session(plan_type, user_context, now)
    /\ request' = [kind |-> "start", plan_type |-> plan_type, user_context |-> user_context]
    /\ UNCHANGED <<session_stage, history, started, gateVars, now, handlerVars, agentVars>>

\* Time passes between calls.
Tick ==
    /\ now < MaxTime
    /\ now' = now + 1
    /\ UNCHANGED <<gateVars, convVars, handlerVars, agentVars>>

NextEngine ==
    \/ \E m \in Messages, st \in StageInputs, n \in 0..MaxHistory : CallEngine(m, st, n)
    \/ \E p \in PlanTypes, c \in UserContexts : CallStart(p, c)

SpecEngine == InitConv /\ [][NextEngine]_vars

\* The engine called at different times, with no history or a long one.
NextTimed ==
    \/ \E m \in Messages, st \in StageInputs, n \in {0, MaxHistory} : CallEngine(m, st, n)
    \/ \E p \in PlanTypes, c \in UserContexts : CallStart(p, c)
    \/ Tick

SpecTimed == InitConv /\ [][NextTimed]_vars

(***************************************************************************)
(* The analysis engine (crew_runtime.py, CrewAnalysisEngine)               *)
(***************************************************************************)
\* What the crew runner does when an analysis is requested: the import of
\* StartupAICrew failed, its constructor or its kickoff raises, or kickoff
\* returns a string, an object with a string attribute raw, or None.
CrewBehaviours ==
    { "unavailable", "constructor raises", "kickoff raises",
      "returns str", "returns CrewOutput", "returns None" }

crew_raises(crew) == crew \in {"constructor raises", "kickoff raises"}

normalize_result_payload(crew) ==
    CASE crew = "returns None" -> ""
      [] crew = "returns str" -> "crew result"
      [] crew = "returns CrewOutput" -> "crew result"

\* _build_fallback_text: the opening words of the heuristic text
build_fallback_text(inputs) == "Strategic analysis focused on: "

\* The parts of the structured payload that repeat their arguments.
build_structured_payload(raw_text, inputs, user_id) ==
    [ raw_output |-> raw_text,
      report |-> [content |-> raw_text, model |-> "crewai"],
      inputs |-> inputs,
      user_id |-> user_id ]

\* The runner's result is tagged "crew" also when its kickoff raised.
run_analysis_tag_attempts(inputs, user_id, crew) ==
    LET attempted == crew # "unavailable"
        succeeded == attempted /\ ~crew_raises(crew)
        raw_text == IF succeeded THEN normalize_result_payload(crew)
                    ELSE build_fallback_text(inputs)
    IN [ structured |-> build_structured_payload(raw_text, inputs, user_id),
         metadata |-> [mode |-> IF attempted THEN "crew" ELSE "fallback",
                       error |-> attempted /\ ~succeeded] ]

\* run_analysis without the generated analysis_id; metadata.error says
\* whether the metadata carries an error entry.
run_analysis(inputs, user_id, crew) ==
    LET attempted == crew # "unavailable"
        succeeded == attempted /\ ~crew_raises(crew)
        raw_text == IF succeeded THEN normalize_result_payload(crew)
                    ELSE build_fallback_text(inputs)
    IN [ structured |-> build_structured_payload(raw_text, inputs, user_id),
         metadata |-> [mode |-> IF succeeded THEN "crew" ELSE "fallback",
                       error |-> attempted /\ ~succeeded] ]

(***************************************************************************)
(* The crew-analyze function (crew-analyze.py)                             *)
(***************************************************************************)
ANALYSIS_RATE_LIMIT == 10
CONVERSATION_RATE_LIMIT == 60
START_RATE_LIMIT == 6

\* The windows, in units of five minutes (the unit of the clock).
ANALYSIS_WINDOW == 3
CONVERSATION_WINDOW == 1
START_WINDOW == 3

WindowSeconds(window) == window * 300

Max(a, b) == IF a > b THEN a ELSE b

\* A request is allowed while no more than limit timestamps remain.
check_rate_limit_one_more(store, user_id, bucket, limit, window, utcnow) ==
    LET key == <<user_id, bucket>>
        timestamps == IF key \in DOMAIN store THEN store[key] ELSE << >>
        kept == SelectSeq(timestamps, LAMBDA ts : utcnow - ts < window)
        allowed == Len(kept) <= limit
        recorded == IF allowed THEN Append(kept, utcnow) ELSE kept
    IN [ allowed |-> allowed,
         remaining |-> IF allowed THEN Max(limit - Len(recorded), 0) ELSE 0,
         store |-> [ k \in DOMAIN store \cup {key} |->
                       IF k = key THEN recorded ELSE store[k] ] ]

\* A denied request is recorded too.
check_rate_limit_records_denials(store, user_id, bucket, limit, window, utcnow) ==
    LET key == <<user_id, bucket>>
        timestamps == IF key \in DOMAIN store THEN store[key] ELSE << >>
        kept == SelectSeq(timestamps, LAMBDA ts : utcnow - ts < window)
        allowed == Len(kept) < limit
        recorded == Append(kept, utcnow)
    IN [ allowed |-> allowed,
         remaining |-> IF allowed THEN Max(limit - Len(recorded), 0) ELSE 0,
         store |-> [ k \in DOMAIN store \cup {key} |->
                       IF k = key THEN recorded ELSE store[k] ] ]

\* check_rate_limit: the timestamps of the key still inside the window are
\* kept; the request is allowed, and recorded, when fewer than limit remain.
check_rate_limit(store, user_id, bucket, limit, window, utcnow) ==
    LET key == <<user_id, bucket>>
        timestamps == IF key \in DOMAIN store THEN store[key] ELSE << >>
        kept == SelectSeq(timestamps, LAMBDA ts : utcnow - ts < window)
        allowed == Len(kept) < limit
        recorded == IF allowed THEN Append(kept, utcnow) ELSE kept
    IN [ allowed |-> allowed,
         remaining |-> IF allowed THEN Max(limit - Len(recorded), 0) ELSE 0,
         store |-> [ k \in DOMAIN store \cup {key} |->
                       IF k = key THEN recorded ELSE store[k] ] ]

json_response(status_code, body, headers) ==
    [statusCode |-> status_code, headers |-> headers, body |-> body]

NoHeaders == [h \in {} |-> ""]

\* The Authorization header values: none, a valid token with or without a
\* scheme, an expired token for which the Supabase client returns no user,
\* and a malformed token on which the Supabase client raises.
AuthHeaders ==
    {"", "Bearer token-u1", "token-u1", "Bearer token-expired", "Bearer token-malformed"}

\* auth_header.split(" ")[1] if " " in auth_header else auth_header
token_of(auth_header) ==
    CASE auth_header = "Bearer token-u1" -> "token-u1"
      [] auth_header = "Bearer token-expired" -> "token-expired"
      [] auth_header = "Bearer token-malformed" -> "token-malformed"
      [] OTHER -> auth_header

\* authenticate_request: supabase says whether the Supabase client is
\* configured; a token for which get_user returns no user raises
\* PermissionError, and what get_user raises itself is raised again.
authenticate_request(token, supabase) ==
    IF supabase = "not configured" THEN [raised |-> "RuntimeError", user_id |-> None]
    ELSE IF token = "token-u1" THEN [raised |-> None, user_id |-> "u1"]
    ELSE IF token = "token-malformed" THEN [raised |-> "AuthApiError", user_id |-> None]
    ELSE [raised |-> "PermissionError", user_id |-> None]

\* A JSON value sent as current_stage: a number, a string that int()
\* parses (numeric) or not, or an array, which int() does not accept.
StageValues ==
    { [json |-> "number", numeric |-> TRUE, int |-> n] : n \in {-1, 0, 1, 7, 8} }
      \cup { [json |-> "string", numeric |-> TRUE, int |-> 3],
             [json |-> "string", numeric |-> FALSE, int |-> 0],
             [json |-> "array", numeric |-> FALSE, int |-> 0] }

NoStage == [json |-> "number", numeric |-> TRUE, int |-> 0]

\* bool(value) of a current_stage value: a number other than 0, or a
\* string or an array (those here are not empty)
stage_value_truthy(value) == value.json \in {"string", "array"} \/ value.int # 0

EmptyMessage == [pad |-> 0, chars |-> 0, marker |-> FALSE, words |-> {}]

HandlerMessages == { EmptyMessage, [pad |-> 0, chars |-> 51, marker |-> TRUE, words |-> {}] }

\* The number of turns of the conversation_history a request carries.
HandlerHistoryLen == 3

\* str.lower() of the plan types sent
lower(plan_type) == IF plan_type = "SPRINT" THEN "sprint" ELSE plan_type

\* Request bodies.  has is the set of keys the JSON object holds; a key it
\* does not hold has a fixed value that is never read.
UnsupportedBodies ==
    { [json |-> "object", has |-> {"action"}, action |-> "delete_everything"] }

StartBodies ==
    { [json |-> "object", has |-> {"action"} \cup h, action |-> "conversation_start",
       plan_type |-> p, user_context |-> c] :
        h \in SUBSET {"plan_type", "user_context"},
        p \in {"sprint", "SPRINT", "unknown"}, c \in {"{}", "{referral}"} }

MessageBodies ==
    { [json |-> "object", has |-> {"action"} \cup h, action |-> "conversation_message",
       session_id |-> "s1", message |-> m, current_stage |-> st,
       conversation_history |-> HandlerHistoryLen] :
        h \in { x \in SUBSET {"session_id", "message", "current_stage",
                              "conversation_history"} :
                  "conversation_history" \in x
                    \/ x = {"session_id", "message", "current_stage"} },
        m \in HandlerMessages, st \in StageValues }

AnalysisBodies ==
    { [json |-> "object", has |-> h, action |-> "analysis",
       strategic_question |-> "q", project_id |-> "p1"] :
        h \in SUBSET {"action", "strategic_question", "project_id"} }

\* A key the object does not hold carries the first value of its kind.
Canonical(body) ==
    /\ (body.action = "conversation_start" /\ "plan_type" \notin body.has)
          => body.plan_type = "sprint"
    /\ (body.action = "conversation_start" /\ "user_context" \notin body.has)
          => body.user_context = "{}"
    /\ (body.action = "conversation_message" /\ "message" \notin body.has)
          => body.message = EmptyMessage
    /\ (body.action = "conversation_message" /\ "current_stage" \notin body.has)
          => body.current_stage = NoStage

Bodies ==
    { b \in UnsupportedBodies \cup StartBodies \cup MessageBodies \cup AnalysisBodies :
        Canonical(b) }

\* body.get(field) is truthy
body_has(body, field) ==
    /\ field \in body.has
    /\ field = "message" => message_truthy(body.message)
    /\ field = "current_stage" => stage_value_truthy(body.current_stage)

\* The events: a health check, a wrong method, a POST without a body or with
\* a body that is not JSON, and POSTs of every body by an authenticated
\* caller; unauthenticated POSTs and POSTs while Supabase is not configured
\* carry a complete body of each action, and so do the analysis requests
\* that find the crew runner in each of its behaviours.  supabase and crew
\* are the environment of the invocation.
CompleteBody(b) ==
    b.has = CASE b.action = "conversation_start" -> {"action", "plan_type", "user_context"}
              [] b.action = "conversation_message" ->
                   {"action", "session_id", "message", "current_stage", "conversation_history"}
              [] b.action = "analysis" -> {"action", "strategic_question", "project_id"}
              [] OTHER -> {"action"}

Event(method, body, auth_header, supabase, crew) ==
    [ httpMethod |-> method, body |-> body, authorization |-> auth_header,
      supabase |-> supabase, crew |-> crew ]

Events ==
    { Event("GET", [json |-> "absent"], "", "configured", "unavailable"),
      Event("PUT", [json |-> "absent"], "", "configured", "unavailable"),
      Event("POST", [json |-> "absent"], "Bearer token-u1", "configured", "unavailable"),
      Event("POST", [json |-> "invalid"], "Bearer token-u1", "configured", "unavailable") }
    \cup { Event("POST", b, "Bearer token-u1", "configured", "unavailable") : b \in Bodies }
    \cup { Event("POST", b, "Bearer token-u1", "configured", c) :
             b \in { x \in AnalysisBodies : {"strategic_question", "project_id"} \subseteq x.has },
             c \in CrewBehaviours }
    \cup { Event("POST", b, a, "configured", "unavailable") :
             b \in { x \in Bodies : CompleteBody(x) }, a \in AuthHeaders }
    \cup { Event("POST", b, "Bearer token-u1", "not configured", "unavailable") :
             b \in { x \in Bodies : CompleteBody(x) } }

\* handle_conversation_start
handle_conversation_start(body, user_id, utcnow) ==
    LET plan_type == lower(IF "plan_type" \in body.has THEN body.plan_type ELSE "trial")
        user_context == IF "user_context" \in body.has THEN body.user_context ELSE "{}"
    IN [ success |-> TRUE, kind |-> "conversation_start",
         session |-> start_session(plan_type, user_context, utcnow) ]

RequiredMessageFields == << "session_id", "message", "current_stage" >>

RequiredAnalysisFields == << "strategic_question", "project_id" >>

\* Only the first required field is looked for.
missing_fields_first_only(body, required_fields) ==
    SelectSeq(SubSeq(required_fields, 1, 1), LAMBDA field : ~body_has(body, field))

\* [field for field in required_fields if not body.get(field)]
missing_fields(body, required_fields) ==
    SelectSeq(required_fields, LAMBDA field : ~body_has(body, field))

\* handle_conversation_message: raised is the exception it ends with, if any.
handle_conversation_message(body, user_id, utcnow) ==
    LET missing == missing_fields(body, RequiredMessageFields)
    IN IF missing # << >>
       THEN [raised |-> "ValueError", error |-> "Missing required fields", missing |-> missing]
       ELSE IF body.current_stage.json = "array"
       THEN [raised |-> "TypeError", error |-> "int() argument", missing |-> << >>]
       ELSE IF ~body.current_stage.numeric
       THEN [raised |-> "ValueError", error |-> "invalid literal for int()", missing |-> << >>]
       ELSE
         LET current_stage == body.current_stage.int
             turns == IF "conversation_history" \in body.has
                      THEN Turns(body.conversation_history) ELSE << >>
             r == process_message(body.message, current_stage, turns, utcnow)
         IN [ raised |-> None,
              payload |-> [success |-> TRUE, kind |-> "conversation_message", message |-> r],
              stage |-> r.stage_state.current_stage,
              progress |-> r.conversation_metrics.overall_progress ]

\* handle_analysis
handle_analysis(body, user_id, crew) ==
    LET missing == missing_fields(body, RequiredAnalysisFields)
    IN IF missing # << >>
       THEN [raised |-> "ValueError", error |-> "Missing required fields", missing |-> missing]
       ELSE
         LET inputs == [strategic_question |-> body.strategic_question,
                        project_id |-> body.project_id]
             r == run_analysis(inputs, user_id, crew)
         IN [ raised |-> None,
              payload |-> [success |-> TRUE, result |-> r.structured,
                           metadata |-> [project_id |-> inputs.project_id,
                                         user_id |-> user_id, engine |-> r.metadata]],
              mode |-> r.metadata.mode ]

\* What one invocation leaves behind: its response, the rate-limit store,
\* and the functions it called, in order.
Out(resp, store, called) == [response |-> resp, store |-> store, calls |-> called]

ErrorBody(message) == [error |-> message]

\* The slot is given back when the request fails.
store_on_error_given_back(charged, before) == before

\* The except clauses of handler answer 400 or 500 and leave the rate-limit
\* store as check_rate_limit charged it.
store_on_error(charged, before) == charged

\* The part of handler inside its try block, after authentication.
handle_action(action, body, user_id, crew, store, utcnow) ==
    CASE action = "conversation_start" ->
           LET rl == check_rate_limit(store, user_id, "conversation_start",
                                      START_RATE_LIMIT, START_WINDOW, utcnow)
           IN IF ~rl.allowed
              THEN Out(json_response(429,
                           [error |-> "Too many session starts. Please try again soon.",
                            retry_after_seconds |-> WindowSeconds(START_WINDOW)],
                           NoHeaders),
                       rl.store, << "authenticate_request", "check_rate_limit" >>)
              ELSE Out(json_response(200, handle_conversation_start(body, user_id, utcnow),
                           [remaining |-> rl.remaining, limit |-> START_RATE_LIMIT]),
                       rl.store,
                       << "authenticate_request", "check_rate_limit", "start_session" >>)
      [] action = "conversation_message" ->
           LET rl == check_rate_limit(store, user_id, "conversation_message",
                                      CONVERSATION_RATE_LIMIT, CONVERSATION_WINDOW, utcnow)
               h == handle_conversation_message(body, user_id, utcnow)
           IN IF ~rl.allowed
              THEN Out(json_response(429,
                           [error |-> "Conversation rate limit reached.",
                            retry_after_seconds |-> WindowSeconds(CONVERSATION_WINDOW)],
                           NoHeaders),
                       rl.store, << "authenticate_request", "check_rate_limit" >>)
              ELSE IF h.raised = "ValueError"
              THEN Out(json_response(400, [error |-> h.error, missing |-> h.missing],
                                     NoHeaders),
                       store_on_error(rl.store, store),
                       << "authenticate_request", "check_rate_limit" >>)
              ELSE IF h.raised # None
              THEN Out(json_response(500, ErrorBody("Internal server error"), NoHeaders),
                       store_on_error(rl.store, store),
                       << "authenticate_request", "check_rate_limit" >>)
              ELSE Out(json_response(200, h.payload,
                           [remaining |-> rl.remaining, limit |-> CONVERSATION_RATE_LIMIT,
                            stage |-> h.stage, progress |-> h.progress]),
                       rl.store,
                       << "authenticate_request", "check_rate_limit", "process_message" >>)
      [] action = "analysis" ->
           LET rl == check_rate_limit(store, user_id, "analysis",
                                      ANALYSIS_RATE_LIMIT, ANALYSIS_WINDOW, utcnow)
               h == handle_analysis(body, user_id, crew)
           IN IF ~rl.allowed
              THEN Out(json_response(429,
                           [error |-> "Rate limit exceeded.",
                            retry_after_seconds |-> WindowSeconds(ANALYSIS_WINDOW)],
                           NoHeaders),
                       rl.store, << "authenticate_request", "check_rate_limit" >>)
              ELSE IF h.raised = "ValueError"
              THEN Out(json_response(400, [error |-> h.error, missing |-> h.missing],
                                     NoHeaders),
                       store_on_error(rl.store, store),
                       << "authenticate_request", "check_rate_limit" >>)
              ELSE Out(json_response(200, h.payload,
                           [remaining |-> rl.remaining, limit |-> ANALYSIS_RATE_LIMIT,
                            mode |-> h.mode]),
                       rl.store,
                       << "authenticate_request", "check_rate_limit", "run_analysis" >>)

SupportedActions == {"analysis", "conversation_start", "conversation_message"}

\* handler: headers holds the X-RateLimit-Remaining, X-RateLimit-Limit,
\* X-Conversation-Stage, X-Conversation-Progress and X-Analysis-Mode headers
\* under the names remaining, limit, stage, progress and mode.
handler(ev, store, utcnow) ==
    IF ev.httpMethod = "GET"
    THEN Out(json_response(200, [status |-> "healthy", service |-> "crew-analyze"], NoHeaders),
             store, << >>)
    ELSE IF ev.httpMethod # "POST"
    THEN Out(json_response(405, ErrorBody("Method not allowed"), NoHeaders), store, << >>)
    ELSE IF ev.body.json = "absent"
    THEN Out(json_response(400, ErrorBody("Request body is required"), NoHeaders), store, << >>)
    ELSE IF ev.body.json = "invalid"
    THEN Out(json_response(400, ErrorBody("Invalid JSON in request body"), NoHeaders),
             store, << >>)
    ELSE
      LET body == ev.body
          action == IF "action" \in body.has THEN body.action ELSE "analysis"
      IN IF action \notin SupportedActions
         THEN Out(json_response(400, ErrorBody("Unsupported action"), NoHeaders), store, << >>)
         ELSE IF ev.authorization = ""
         THEN Out(json_response(401, ErrorBody("Authentication required"), NoHeaders),
                  store, << >>)
         ELSE
           LET auth == authenticate_request(token_of(ev.authorization), ev.supabase)
           IN IF auth.raised = "PermissionError"
              THEN Out(json_response(401, ErrorBody("Authentication failed"), NoHeaders),
                       store, << "authenticate_request" >>)
              ELSE IF auth.raised # None
              THEN Out(json_response(500, ErrorBody("Server configuration error"), NoHeaders),
                       store, << "authenticate_request" >>)
              ELSE handle_action(action, body, auth.user_id, ev.crew, store, utcnow)

\* The number of requests the store has recorded.
RECURSIVE RequestsRecorded(_, _)
RequestsRecorded(store, keys) ==
    IF keys = {} THEN 0
    ELSE LET k == CHOOSE x \in keys : TRUE
         IN Len(store[k]) + RequestsRecorded(store, keys \ {k})

Handler(ev) ==
    /\ RequestsRecorded(rate_limit_store, DOMAIN rate_limit_store) < MaxRequests
    /\ LET out == handler(ev, rate_limit_store, now)
       IN /\ response' = out.response
          /\ rate_limit_store' = out.store
          /\ calls' = out.calls
    /\ event' = ev
    /\ UNCHANGED <<gateVars, convVars, now, project, gate_task, agentVars>>

NextHandler == \E ev \in Events : Handler(ev)

SpecHandler == InitConv /\ [][NextHandler]_vars

\* The clock of datetime.utcnow() moves on between calls.
Elapse ==
    /\ now < MaxClock
    /\ now' = now + 1
    /\ UNCHANGED <<gateVars, convVars, handlerVars, agentVars>>

\* The handler under a clock: requests of each kind of answer, by a caller
\* of each kind, while time passes between them.
ClockedBodies ==
    { b \in Bodies :
        \/ b.action = "delete_everything"
        \/ b.action = "conversation_start" /\ CompleteBody(b) /\ b.plan_type = "sprint"
                                           /\ b.user_context = "{}"
        \/ /\ b.action = "conversation_message"
           /\ \/ /\ b.has = {"action", "session_id", "current_stage", "conversation_history"}
                 /\ b.current_stage.int = 1
              \/ /\ CompleteBody(b)
                 /\ b.message # EmptyMessage
                 /\ b.current_stage.json = "array"
        \/ b.action = "analysis" /\ b.has = {"action", "project_id"} }

ClockedEvents ==
    { ev \in Events :
        /\ ev.crew = "unavailable"
        /\ ev.body.json = "object" => ev.body \in ClockedBodies
        /\ ev.authorization \in {"", "Bearer token-u1", "Bearer token-expired"} }

NextHandlerClock ==
    \/ \E ev \in ClockedEvents : Handler(ev)
    \/ Elapse

SpecHandlerClock == InitConv /\ [][NextHandlerClock]_vars

(***************************************************************************)
(* The rate limiter of crew-analyze on its own, under a clock              *)
(***************************************************************************)
RateLimitUsers == {"u1", "u2"}

RateLimitBuckets == {"conversation_start", "analysis"}

\* The keys checked: two users of one bucket, and two buckets of one user.
RateLimitKeys ==
    { k \in RateLimitUsers \X RateLimitBuckets : k[1] = "u1" \/ k[2] = "conversation_start" }

\* One call of check_rate_limit(user_id, bucket, limit=RateLimit,
\* window=RateWindow); calls logs every call with the value of utcnow() and
\* its outcome, event and response hold the last call and what it returned.
CheckRateLimit(user_id, bucket) ==
    /\ Len(calls) < MaxCalls
    /\ LET rl == check_rate_limit(rate_limit_store, user_id, bucket, RateLimit, RateWindow, now)
       IN /\ rate_limit_store' = rl.store
          /\ response' = [allowed |-> rl.allowed, remaining |-> rl.remaining]
          /\ calls' = Append(calls, [user_id |-> user_id, bucket |-> bucket,
                                     utcnow |-> now, allowed |-> rl.allowed])
    /\ event' = [user_id |-> user_id, bucket |-> bucket]
    /\ UNCHANGED <<gateVars, convVars, now, project, gate_task, agentVars>>

NextRateLimit ==
    \/ \E k \in RateLimitKeys : CheckRateLimit(k[1], k[2])
    \/ Elapse

SpecRateLimit == InitConv /\ [][NextRateLimit]_vars

(***************************************************************************)
(* The gate-evaluate function (backend/netlify/functions/gate-evaluate.py) *)
(***************************************************************************)
\* The readiness score as an exact fraction num / den.
calculate_gate_readiness_fraction(stage, ev) ==
    IF ev = <<>> THEN [num |-> 0, den |-> 1]
    ELSE
      LET c == DEFAULT_GATE_CRITERIA[stage]
          n == Len(ev)
          T == c.min_total_evidence
          E == c.min_experiments
          R == Len(c.required_evidence_types)
          covered == R - Len(missing_types(ev, c))
          X == Min(n, T) * E * R + Min(count_experiments(ev), E) * T * R
                 + covered * T * E
      IN [ num |-> X * 100 * n + SumQuality(ev) * T * E * R,
           den |-> 4 * T * E * R * 100 * n ]

\* The bits a double keeps of a value.
DoubleBits == 53

\* Where the double nearest to a value lies against the value itself:
\* "exact", "above" or "below".  The value is rem / d times a power of two,
\* rem < d; kept counts the bits written from the leading one (leading),
\* last is the bit written last.  The binary digits come by long division;
\* the digits past the last bit kept round it to the nearest, a tie to the
\* even one.
RECURSIVE float_side(_, _, _, _, _)
float_side(rem, d, kept, leading, last) ==
    IF rem = 0 THEN "exact"
    ELSE IF kept = DoubleBits
    THEN IF 2 * rem > d THEN "above"
         ELSE IF 2 * rem < d THEN "below"
         ELSE IF last = 1 THEN "above" ELSE "below"
    ELSE LET bit == IF 2 * rem >= d THEN 1 ELSE 0
             go == leading \/ bit = 1
         IN float_side(2 * rem - bit * d, d, IF go THEN kept + 1 ELSE kept, go, bit)

\* The least d * 2^k above p.
RECURSIVE above_power(_, _)
above_power(p, d) == IF p < d THEN d ELSE above_power(p, 2 * d)

\* round(num / den, 3) in thousandths, as Python rounds a float: the double
\* nearest to num / den is rounded to the nearest thousandth, and a tie in
\* thousandths goes the way that double lies from it, to the even
\* thousandth only when the double is the tie itself.
round_3(num, den) ==
    LET q == (num * 1000) \div den
        r == (num * 1000) % den
        side == float_side(2 * q + 1, above_power(2 * q + 1, 2000), 0, FALSE, 0)
    IN IF 2 * r > den THEN q + 1
       ELSE IF 2 * r < den THEN q
       ELSE IF side = "above" THEN q + 1
       ELSE IF side = "below" THEN q
       ELSE q + (q % 2)

\* A row of the evidence table as the select returns it: has is the set of
\* keys the row holds; quality_score is a JSON number, a string that float()
\* parses (numeric) or not (text), or null.
Row(has, type, strength, quality_json, quality_score) ==
    [ has |-> has, type |-> type, strength |-> strength,
      quality |-> [json |-> quality_json, value |-> quality_score] ]

RowKeys == {"type", "strength", "quality_score"}

RowCatalogue ==
    << Row(RowKeys, "interview", "strong", "number", 90),
       Row(RowKeys, "experiment", "medium", "numeric", 70),
       Row(RowKeys, "analytics", "medium", "number", 70),
       Row({"strength", "quality_score"}, "interview", "strong", "number", 90),
       Row({"type", "quality_score"}, "interview", "strong", "number", 90),
       Row({"type", "strength"}, "interview", "strong", "number", 90),
       Row(RowKeys, "interview", "bogus", "number", 90),
       Row(RowKeys, "interview", "strong", "text", 0),
       Row(RowKeys, "interview", "strong", "null", 0),
       Row({"strength", "quality_score"}, "interview", "strong", "null", 0) >>

\* Ten well-formed rows that pass the DESIRABILITY gate.
PassingRows ==
    [ i \in 1..10 |-> IF i <= 2 THEN RowCatalogue[1]
                      ELSE IF i <= 7 THEN RowCatalogue[2]
                      ELSE RowCatalogue[3] ]

\* The contents of the evidence table of the project: up to MaxRows rows in
\* the order of the catalogue (the handler's result does not depend on the
\* order), and the passing rows alone or followed by one malformed row.
RowLists ==
    { [i \in 1..Len(ix) |-> RowCatalogue[ix[i]]] :
        ix \in { f \in UNION { [1..n -> 1..Len(RowCatalogue)] : n \in 0..MaxRows } :
                   \A i \in 1..(Len(f) - 1) : f[i] <= f[i + 1] } }
    \cup { PassingRows, Append(PassingRows, RowCatalogue[7]),
           Append(PassingRows, RowCatalogue[9]) }

\* The exception raised while formatting a row, if any: e["type"], then
\* EvidenceStrength(e["strength"]), then float(e["quality_score"]).
format_error(e) ==
    IF "type" \notin e.has THEN "KeyError"
    ELSE IF "strength" \notin e.has THEN "KeyError"
    ELSE IF e.strength \notin EvidenceStrength THEN "ValueError"
    ELSE IF "quality_score" \notin e.has THEN "KeyError"
    ELSE IF e.quality.json = "text" THEN "ValueError"
    ELSE IF e.quality.json = "null" THEN "TypeError"
    ELSE None

\* except (KeyError, ValueError): continue
row_is_skipped(e) == format_error(e) \in {"KeyError", "ValueError"}

format_row(e) ==
    [type |-> e.type, strength |-> e.strength, quality_score |-> e.quality.value]

\* The formatting loop: the rows formatted, or the exception that ends it.
RECURSIVE format_evidence(_)
format_evidence(evidence_list) ==
    IF evidence_list = << >> THEN [raised |-> None, formatted |-> << >>]
    ELSE LET e == Head(evidence_list)
             rest == format_evidence(Tail(evidence_list))
         IN IF row_is_skipped(e) THEN rest
            ELSE IF format_error(e) # None
            THEN [raised |-> format_error(e), formatted |-> << >>]
            ELSE IF rest.raised # None THEN rest
            ELSE [raised |-> None, formatted |-> << format_row(e) >> \o rest.formatted]

\* Requests.  has is the set of keys of the body; stage is sent as a JSON
\* string, or as a JSON array holding the string (stage_json).
GateStageInputs == GateStages \cup {"LAUNCH", "desirability", ""}

GateBodies ==
    { [json |-> "object", has |-> h, project_id |-> p, stage |-> st, stage_json |-> "string"] :
        h \in SUBSET {"project_id", "stage"}, p \in {"p1", ""}, st \in GateStageInputs }
    \cup { [json |-> "object", has |-> {"project_id", "stage"}, project_id |-> "p1",
            stage |-> "DESIRABILITY", stage_json |-> "array"] }

CanonicalGateBody(b) ==
    /\ "project_id" \notin b.has => b.project_id = "p1"
    /\ "stage" \notin b.has => b.stage = "DESIRABILITY"

ValidGateBody(b) ==
    /\ b.has = {"project_id", "stage"}
    /\ b.stage_json = "string"
    /\ b.project_id # ""
    /\ b.stage \in GateStages

GateEvent(method, body, supabase, fetch, update) ==
    [ httpMethod |-> method, body |-> body,
      supabase |-> supabase, fetch |-> fetch, update |-> update ]

\* The events: a preflight, a request whose body is absent, null or not
\* JSON, and requests with every body; supabase, fetch and update say
\* whether the Supabase client is configured and whether the select and the
\* update succeed.
GateEvents ==
    { GateEvent("OPTIONS", [json |-> "absent"], "configured", "ok", "ok"),
      GateEvent("POST", [json |-> "absent"], "configured", "ok", "ok"),
      GateEvent("POST", [json |-> "null"], "configured", "ok", "ok"),
      GateEvent("POST", [json |-> "invalid"], "configured", "ok", "ok") }
    \cup { GateEvent("POST", b, "configured", "ok", "ok") :
             b \in { x \in GateBodies : CanonicalGateBody(x) } }
    \cup { GateEvent("GET", b, "configured", "ok", "ok") :
             b \in { x \in GateBodies : ValidGateBody(x) } }
    \cup { GateEvent("POST", b, s, f, u) :
             b \in { x \in GateBodies : ValidGateBody(x) /\ x.stage = "DESIRABILITY" },
             s \in {"configured", "not configured"},
             f \in {"ok", "fails"}, u \in {"ok", "fails"} }

GateResponse(status_code, body) == [statusCode |-> status_code, body |-> body]

\* No update of the project row is to be made.
NoUpdate == [kind |-> "none"]

\* What the handler has done when it returns or reaches the update: the
\* response (to be returned after the update, if one is to be made), the
\* rows get_project_evidence returned, the values to write and the calls.
GateOut(resp, rows, values, called) ==
    [response |-> resp, evidence_list |-> rows, update |-> values, calls |-> called]

\* The outer except: 500 with the exception in the message.
internal_error(exception, rows, called) ==
    GateOut(GateResponse(500, [error |-> "Internal server error", message |-> exception]),
            rows, NoUpdate, called)

\* except KeyError of GateStage[stage_str]: 400, nothing was called
invalid_stage ==
    GateOut(GateResponse(400, [error |-> "Invalid stage"]), << >>, NoUpdate, << >>)

\* The update of the project row answers 500 when it raises.
update_except_raises(update, resp) ==
    IF update = "ok" THEN resp
    ELSE GateResponse(500, [error |-> "Internal server error", message |-> "Exception"])

\* try: update ... except Exception: print; the response follows either way.
update_except(update, resp) == resp

\* The rows the project may hold after .update(values).execute(): the
\* values when it returns; when it raises, the exception says nothing of
\* the table, which holds the old row or the values already written.
update_project(update, proj, values) == IF update = "ok" THEN {values} ELSE {proj, values}

\* handler of gate-evaluate.py up to the update of the project row: rows is
\* what the evidence table of the project holds when it is selected;
\* readiness_score is in thousandths.
gate_handler(ev, rows) ==
    IF ev.httpMethod = "OPTIONS"
    THEN GateOut(GateResponse(200, [empty |-> TRUE]), << >>, NoUpdate, << >>)
    ELSE IF ev.body.json = "null" THEN internal_error("TypeError", << >>, << >>)
    ELSE IF ev.body.json = "invalid" THEN internal_error("JSONDecodeError", << >>, << >>)
    ELSE
      LET has == IF ev.body.json = "absent" THEN {} ELSE ev.body.has
          project_id == IF "project_id" \in has THEN ev.body.project_id ELSE ""
          stage_str == IF "stage" \in has THEN ev.body.stage ELSE ""
      IN IF project_id = "" \/ stage_str = ""
         THEN GateOut(GateResponse(400, [error |-> "Missing required fields: project_id, stage"]),
                      << >>, NoUpdate, << >>)
         ELSE IF ev.body.stage_json = "array"
         THEN internal_error("TypeError", << >>, << >>)
         ELSE IF stage_str \notin GateStages
         THEN invalid_stage
         ELSE IF ev.supabase # "configured"
         THEN internal_error("ValueError", << >>, << "get_supabase_client" >>)
         ELSE
           LET evidence_list == IF ev.fetch = "ok" THEN rows ELSE << >>
               f == format_evidence(evidence_list)
               formatted == f.formatted
               verdict == evaluate_gate(ev.body.stage, formatted)
               fraction == calculate_gate_readiness_fraction(ev.body.stage, formatted)
               experiments_count == Len(SelectSeq(formatted, LAMBDA e : e.type = "experiment"))
           IN IF evidence_list = << >>
              THEN GateOut(GateResponse(200,
                               [status |-> "Pending",
                                reasons |-> << "No evidence collected yet" >>,
                                readiness_score |-> 0, evidence_count |-> 0,
                                experiments_count |-> 0]),
                           evidence_list, NoUpdate,
                           << "get_supabase_client", "get_project_evidence" >>)
              ELSE IF f.raised # None
              THEN internal_error(f.raised, evidence_list,
                                  << "get_supabase_client", "get_project_evidence" >>)
              ELSE GateOut(GateResponse(200,
                               [status |-> verdict.status, reasons |-> verdict.reasons,
                                readiness_score |-> round_3(fraction.num, fraction.den),
                                evidence_count |-> Len(formatted),
                                experiments_count |-> experiments_count,
                                stage |-> stage_str]),
                           evidence_list,
                           [kind |-> "project", gate_status |-> verdict.status,
                            evidence_quality |->
                                calculate_gate_readiness_score(ev.body.stage, formatted),
                            evidence_count |-> Len(formatted),
                            experiments_count |-> experiments_count],
                           << "get_supabase_client", "get_project_evidence", "evaluate_gate",
                              "calculate_gate_readiness_score" >>)

\* The row after .update(evidence_data): only the columns evidence_data
\* holds are overwritten, the others keep the row's own values.
update_row(e, evidence_data) ==
    [ has |-> e.has \cup evidence_data.has,
      type |-> IF "type" \in evidence_data.has THEN evidence_data.type ELSE e.type,
      strength |-> IF "strength" \in evidence_data.has
                   THEN evidence_data.strength ELSE e.strength,
      quality |-> IF "quality_score" \in evidence_data.has
                  THEN evidence_data.quality ELSE e.quality ]

\* The table without its row i.
delete_row(rows, i) == SubSeq(rows, 1, i - 1) \o SubSeq(rows, i + 1, Len(rows))

\* The table holds some rows; no request has been made.
InitGateHandler ==
    /\ DEFAULT_GATE_CRITERIA \in GateCriteriaTables
    /\ gate_stage = "DESIRABILITY"
    /\ tool_runs = 0
    /\ evidence \in RowLists
    /\ ConvIdle
    /\ HandlerIdle
    /\ AgentIdle

\* The handler from the event to the select of the evidence rows (line 123)
\* and the evaluation of what it returned: the request is answered at once,
\* or goes on to the update of the project row.
GateRequest(ev) ==
    /\ gate_task.pc = "idle"
    /\ LET out == gate_handler(ev, evidence)
       IN /\ calls' = out.calls
          /\ IF out.update = NoUpdate
             THEN /\ response' = out.response
                  /\ gate_task' = [pc |-> "idle", evidence_list |-> out.evidence_list]
             ELSE /\ response' = [kind |-> "none"]
                  /\ gate_task' = [pc |-> "update", evidence_list |-> out.evidence_list]
    /\ event' = ev
    /\ UNCHANGED <<gateVars, convVars, now, rate_limit_store, project, agentVars>>

\* The update of the project row (lines 162-174) and the response (176-187),
\* from the rows fetched earlier.
GateUpdate ==
    /\ gate_task.pc = "update"
    /\ LET out == gate_handler(event, gate_task.evidence_list)
       IN /\ project' \in update_project(event.update, project, out.update)
          /\ response' = update_except(event.update, out.response)
    /\ calls' = Append(calls, "update")
    /\ gate_task' = [gate_task EXCEPT !.pc = "idle"]
    /\ UNCHANGED <<gateVars, convVars, now, rate_limit_store, event, agentVars>>

\* EvidenceStoreTool._run in another process, at most MaxToolRuns calls:
\* create inserts evidence_data as a row of the project whatever evidence_id
\* is; update overwrites the columns evidence_data holds in the row
\* evidence_id; delete removes the row evidence_id.  evidence_id is the place
\* of the row in the table, 0 for none given: an update or a delete without
\* one returns an error, and one that names no row matches nothing; neither
\* writes.
EvidenceStoreTool_run(action, evidence_id, evidence_data) ==
    /\ tool_runs < MaxToolRuns
    /\ \/ /\ action = "create"
          /\ evidence' = Append(evidence, evidence_data)
       \/ /\ action = "update"
          /\ evidence' = IF evidence_id \in 1..Len(evidence)
                         THEN [evidence EXCEPT ![evidence_id] = update_row(@, evidence_data)]
                         ELSE evidence
       \/ /\ action = "delete"
          /\ evidence' = IF evidence_id \in 1..Len(evidence)
                         THEN delete_row(evidence, evidence_id)
                         ELSE evidence
    /\ tool_runs' = tool_runs + 1
    /\ UNCHANGED <<DEFAULT_GATE_CRITERIA, gate_stage, convVars, now, handlerVars, agentVars>>

\* The requests, and the calls of the tool.  The tool is called with a
\* whole well-formed row, a whole row whose quality_score is null, type and
\* strength alone, or strength with a null quality_score; it names no row or
\* a row of the table (equal rows are interchangeable, so the first of them).
NextGateHandler ==
    \/ \E ev \in GateEvents : GateRequest(ev)
    \/ GateUpdate
    \/ \E action \in {"create", "update", "delete"},
          evidence_id \in {0} \cup { i \in 1..Len(evidence) :
                                       \A j \in 1..(i - 1) : evidence[j] # evidence[i] },
          evidence_data \in { RowCatalogue[1], RowCatalogue[9],
                              RowCatalogue[6], RowCatalogue[10] } :
            EvidenceStoreTool_run(action, evidence_id, evidence_data)

SpecGateHandler == InitGateHandler /\ [][NextGateHandler]_vars

(***************************************************************************)
(* Properties of the Gate Scoring engine (checked under SpecGate)          *)
(***************************************************************************)
Criteria == DEFAULT_GATE_CRITERIA[gate_stage]

Verdict == evaluate_gate(gate_stage, evidence)

Readiness == calculate_gate_readiness_score(gate_stage, evidence)

NumberOf(field, value) ==
    Cardinality({ i \in 1..Len(evidence) : evidence[i][field] = value })

TotalQuality == SumQuality(evidence)

\* The five checks, stated on the evidence itself.
FailsTotal == Len(evidence) < Criteria.min_total_evidence

FailsExperiments == NumberOf("type", "experiment") < Criteria.min_experiments

FailsQuality == TotalQuality < Criteria.min_evidence_quality * Len(evidence)

FailsTypes ==
    \E t \in Range(Criteria.required_evidence_types) : NumberOf("type", t) = 0

FailsStrength ==
    \E s \in EvidenceStrength : NumberOf("strength", s) < Criteria.strength_mix[s]

AnyCheckFails ==
    FailsTotal \/ FailsExperiments \/ FailsQuality \/ FailsTypes \/ FailsStrength

FailedChecks ==
    (IF FailsTotal THEN {"Insufficient evidence"} ELSE {})
      \cup (IF FailsExperiments THEN {"Insufficient experiments"} ELSE {})
      \cup (IF FailsQuality THEN {"Evidence quality too low"} ELSE {})
      \cup (IF FailsTypes THEN {"Missing required evidence types"} ELSE {})
      \cup (IF FailsStrength THEN {"Insufficient strength mix"} ELSE {})

ReportedChecks == { Verdict.reasons[i].check : i \in 1..Len(Verdict.reasons) }

\* C1: evaluate_gate returns PENDING exactly for empty evidence (reasons
\* empty), PASSED exactly for non-empty evidence on which no check fails
\* (reasons empty), and FAILED in every other case (reasons non-empty).
C1_StatusFollowsEvidence ==
    /\ Verdict.status \in GateStatus
    /\ (Verdict.status = "Pending") <=> (evidence = << >>)
    /\ (Verdict.status = "Passed") <=> (evidence # << >> /\ ~ AnyCheckFails)
    /\ (Verdict.status = "Failed") <=> (evidence # << >> /\ AnyCheckFails)
    /\ Verdict.status \in {"Pending", "Passed"} => Verdict.reasons = << >>
    /\ Verdict.status = "Failed" => Verdict.reasons # << >>

C1_Witness ==
    /\ Len(evidence) >= Criteria.min_total_evidence
    /\ Verdict.status = "Passed"
    /\ gate_stage = "DESIRABILITY"

\* C2: evaluate_gate does not short-circuit: on non-empty evidence every one
\* of the five checks that fails has its reason in the returned list, and a
\* missing required type is named in the reason.
C2_AllFailuresReported ==
    evidence # << >> =>
        /\ ReportedChecks = FailedChecks
        /\ Len(Verdict.reasons) >= Cardinality(FailedChecks)
        /\ \A t \in Range(Criteria.required_evidence_types) :
               NumberOf("type", t) = 0 =>
                   \E i \in 1..Len(Verdict.reasons) :
                       /\ Verdict.reasons[i].check = "Missing required evidence types"
                       /\ t \in Range(Verdict.reasons[i].missing)

C2_Witness ==
    /\ Len(evidence) >= Criteria.min_total_evidence
    /\ FailsExperiments /\ FailsTypes /\ ~ FailsQuality
    /\ {"Insufficient experiments", "Missing required evidence types"} \subseteq ReportedChecks

\* C3: the quality check is inclusive: a mean quality equal to the stage's
\* min_evidence_quality passes the check, a mean one unit (0.01) below it
\* fails with "Evidence quality too low".
C3_QualityBoundaryInclusive ==
    evidence # << >> =>
        /\ TotalQuality = Criteria.min_evidence_quality * Len(evidence)
              => "Evidence quality too low" \notin ReportedChecks
        /\ TotalQuality = (Criteria.min_evidence_quality - 1) * Len(evidence)
              => "Evidence quality too low" \in ReportedChecks

C3_Witness ==
    /\ evidence # << >>
    /\ TotalQuality = Criteria.min_evidence_quality * Len(evidence)
    /\ Verdict.status = "Passed"

C3_WitnessBelow ==
    /\ evidence # << >>
    /\ TotalQuality = (Criteria.min_evidence_quality - 1) * Len(evidence)
    /\ "Evidence quality too low" \in ReportedChecks

\* C4: DEFAULT_GATE_CRITERIA is strictly increasing from each stage to its
\* successor on min_experiments, min_evidence_quality and min_total_evidence.
\* The table is defined in gate_scoring.py, which is not among the sources;
\* the tables the model runs with are taken among those that have the
\* ordering, so the model holds it as an assumption and shows nothing of it.

\* C5: can_progress_to_next_stage(stage, status) is true exactly when status
\* is PASSED and the stage has a successor; get_next_stage follows
\* DESIRABILITY, FEASIBILITY, VIABILITY, SCALE, None; a progression moves to
\* the immediate successor only, so SCALE is never left and no step goes back.
C5_ProgressionState ==
    /\ \A s \in GateStages, st \in GateStatus :
           can_progress_to_next_stage(s, st)
               <=> (st = "Passed" /\ get_next_stage(s) # None)
    /\ get_next_stage("DESIRABILITY") = "FEASIBILITY"
    /\ get_next_stage("FEASIBILITY") = "VIABILITY"
    /\ get_next_stage("VIABILITY") = "SCALE"
    /\ get_next_stage("SCALE") = None
    /\ gate_stage \in GateStages

C5_ProgressionStep ==
    gate_stage' # gate_stage =>
        /\ gate_stage # "SCALE"
        /\ gate_stage' \in GateStages
        /\ StageIndex(gate_stage') = StageIndex(gate_stage) + 1
        /\ Verdict.status = "Passed"

C5_Progression == [] C5_ProgressionState /\ [][C5_ProgressionStep]_vars

C5_Witness ==
    /\ gate_stage = "SCALE"
    /\ Verdict.status = "Passed"
    /\ ~ can_progress_to_next_stage(gate_stage, Verdict.status)

\* C6: calculate_gate_readiness_score is 0 for empty evidence, stays within
\* [0,1], and does not decrease when one more item is appended whose
\* quality_score is that of the items already in the list.
UniformQuality(ev, q) == \A i \in 1..Len(ev) : ev[i].quality_score = q

C6_ReadinessState ==
    /\ Readiness \in 0..1000
    /\ evidence = << >> => Readiness = 0

C6_ReadinessStep ==
    ( /\ Len(evidence') = Len(evidence) + 1
      /\ gate_stage' = gate_stage
      /\ UniformQuality(evidence', evidence'[Len(evidence')].quality_score) )
    => calculate_gate_readiness_score(gate_stage', evidence') >= Readiness

C6_ReadinessMonotone == [] C6_ReadinessState /\ [][C6_ReadinessStep]_vars

C6_Witness ==
    /\ Len(evidence) > Criteria.min_total_evidence
    /\ UniformQuality(evidence, 70)
    /\ Cardinality(get_evidence_types(evidence)) >= 2
    /\ Readiness > 0

\* C7: evidence for which evaluate_gate with the default criteria returns
\* PASSED has a readiness score of at least 0.9.
C7_PassedIsReady == Verdict.status = "Passed" => Readiness >= 900

C7_Witness ==
    /\ Verdict.status = "Passed"
    /\ \E i \in 1..Len(evidence) : evidence[i].type = "desk"
    /\ \E i \in 1..Len(evidence) : evidence[i].quality_score = 69
    /\ Readiness >= 900

(***************************************************************************)
(* Properties of the Conversation Stage engine                             *)
(***************************************************************************)
IsMessageResult == result.kind = "message" /\ request.kind = "message"

\* The progress the engine computed for the last message: detail_score is
\* round(stage_progress / 100, 2), reported whether or not the stage advanced.
ComputedProgress == result.quality_signals.detail_score

ProcessedStage == result.stage_state.previous_stage

ReachedThreshold ==
    ComputedProgress >= CONVERSATION_STAGES[ProcessedStage].progress_threshold

\* The sum of the progress terms before any clamping.
RawProgress ==
    request.history_len * 15
      + (IF request.message.chars > 50 THEN 20 ELSE 10)
      + (IF request.message.marker THEN 15 ELSE 0)

\* C8 (SpecEngine): for every call of process_message the computed stage
\* progress lies in [0,100], and stage_state.stage_progress,
\* conversation_metrics.stage_progress and overall_progress never exceed 100.
C8_ProgressBounded ==
    IsMessageResult =>
        /\ ComputedProgress \in 0..100
        /\ ComputedProgress = Min(100, RawProgress)
        /\ result.stage_state.stage_progress \in 0..100
        /\ result.conversation_metrics.stage_progress \in 0..100
        /\ result.stage_state.overall_progress \in 0..10000
        /\ result.conversation_metrics.overall_progress \in 0..10000

C8_Witness ==
    /\ IsMessageResult
    /\ RawProgress > 100
    /\ request.current_stage = 7
    /\ result.stage_state.stage_progress = 100
    /\ result.conversation_metrics.stage_progress = 100

\* C9 (Spec): in a session started by start_session whose caller sends back
\* the returned current_stage, every process_message call returns the stage
\* it was given or that stage plus one, never a lower stage and never a
\* stage beyond 7, so the stages are visited in the order 1, 2, ..., 7.
C9_SessionState ==
    /\ started => session_stage \in 1..Len(CONVERSATION_STAGES)
    /\ (started /\ result.kind = "start") => session_stage = 1
    /\ (started /\ result.kind = "message") =>
           session_stage = result.stage_state.current_stage

C9_SessionStep ==
    (result'.kind = "message" /\ Len(history') = Len(history) + 1) =>
        /\ request'.current_stage = session_stage
        /\ result'.stage_state.current_stage \in {session_stage, session_stage + 1}
        /\ result'.stage_state.current_stage <= 7
        /\ session_stage' = result'.stage_state.current_stage

C9_StagesInOrder == [] C9_SessionState /\ [][C9_SessionStep]_vars

C9_Witness ==
    /\ started
    /\ session_stage = 7
    /\ \A k \in 1..6 : \E i \in 1..Len(history) : history[i].stage = k
    /\ \A i \in 1..(Len(history) - 1) : history[i].stage <= history[i + 1].stage

\* C10 as stated: at every stage 1..7 a computed progress at or above the
\* stage's threshold marks the stage complete, sets current_stage to
\* stage + 1, reports stage_progress 0 and returns an empty follow-up.
C10_AdvanceAtEveryStage ==
    (IsMessageResult /\ ReachedThreshold) =>
        /\ result.stage_state.is_stage_complete
        /\ result.stage_state.current_stage = ProcessedStage + 1
        /\ result.stage_state.stage_progress = 0
        /\ result.follow_up_question = ""

\* C10 (Spec), amended: at stages 1..6 a computed progress at or above the
\* stage's threshold marks the stage complete, sets current_stage to
\* stage + 1, reports stage_progress 0 and returns an empty follow-up; at
\* stage 7 the stage is marked complete, current_stage stays 7, the computed
\* stage_progress is reported and the closing question is returned.
C10_AdvanceBelowLastStage ==
    (IsMessageResult /\ ReachedThreshold) =>
        /\ result.stage_state.is_stage_complete
        /\ ProcessedStage < 7 =>
              /\ result.stage_state.current_stage = ProcessedStage + 1
              /\ result.stage_state.stage_progress = 0
              /\ result.conversation_metrics.stage_progress = 0
              /\ result.follow_up_question = ""
        /\ ProcessedStage = 7 =>
              /\ result.stage_state.current_stage = 7
              /\ result.stage_state.stage_progress = ComputedProgress
              /\ result.follow_up_question = FollowUpComplete[7]
              /\ result.follow_up_question # ""

C10_Witness ==
    /\ IsMessageResult
    /\ ReachedThreshold
    /\ ProcessedStage \in 1..6
    /\ result.stage_state.current_stage = ProcessedStage + 1
    /\ result.follow_up_question = ""

C10_WitnessLastStage ==
    /\ IsMessageResult
    /\ ReachedThreshold
    /\ ProcessedStage = 7
    /\ result.follow_up_question # ""

(***************************************************************************)
(* Quality signals of process_message and start_session                    *)
(***************************************************************************)
Clarity == result.quality_signals.clarity

Completeness == result.quality_signals.completeness

\* The length of the message after stripping, and whether it holds a marker.
StrippedChars == request.message.chars

HasMarker == request.message.marker

ClarityScoreMatches ==
    Clarity.score = (CASE Clarity.label = "high" -> 92
                       [] Clarity.label = "medium" -> 68
                       [] Clarity.label = "low" -> 38)

\* C11 as stated (SpecEngine): the clarity label is "low" for a message of
\* fewer than 50 characters with no specificity marker, "high" for one of 50
\* or more characters with a marker, "medium" for one of 50 or more
\* characters without a marker; the scores are 0.92, 0.68, 0.38.
C11_ClarityAtFiftyChars ==
    IsMessageResult =>
        /\ (StrippedChars < 50 /\ ~HasMarker) => Clarity.label = "low"
        /\ (StrippedChars >= 50 /\ HasMarker) => Clarity.label = "high"
        /\ (StrippedChars >= 50 /\ ~HasMarker) => Clarity.label = "medium"
        /\ ClarityScoreMatches

\* C11 amended (SpecEngine): the clarity label is "high" exactly for a
\* stripped message of more than 50 characters with a specificity marker,
\* "medium" for one of more than 50 characters without a marker, and "low"
\* for every message of 50 characters or fewer, marker or not; the scores
\* are 0.92, 0.68, 0.38.
C11_ClarityAboveFiftyChars ==
    IsMessageResult =>
        /\ Clarity.label = (IF StrippedChars > 50 /\ HasMarker THEN "high"
                            ELSE IF StrippedChars > 50 THEN "medium" ELSE "low")
        /\ ClarityScoreMatches

\* A message of exactly 50 characters with a marker is labelled "low".
C11_Witness ==
    /\ IsMessageResult
    /\ StrippedChars = 50
    /\ HasMarker
    /\ Clarity.label = "low"
    /\ Clarity.score = 38

C11_WitnessHigh ==
    /\ IsMessageResult
    /\ StrippedChars = 51
    /\ HasMarker
    /\ Clarity.label = "high"
    /\ Clarity.score = 92

\* The stage progress of the last message, recomputed from the request.
RequestProgress == Min(100, RawProgress)

\* C12 (SpecEngine): the completeness label is "complete" exactly when the
\* stage progress reached the stage's threshold on this turn, otherwise
\* "partial" when the progress is greater than 50, otherwise "insufficient";
\* the scores are 1.0, 0.66, 0.35 and detail_score is stage_progress / 100.
C12_CompletenessLabel ==
    IsMessageResult =>
        /\ Completeness.label =
              (IF RequestProgress >= CONVERSATION_STAGES[ProcessedStage].progress_threshold
               THEN "complete"
               ELSE IF RequestProgress > 50 THEN "partial" ELSE "insufficient")
        /\ Completeness.score = (CASE Completeness.label = "complete" -> 100
                                   [] Completeness.label = "partial" -> 66
                                   [] Completeness.label = "insufficient" -> 35)
        /\ result.quality_signals.detail_score = RequestProgress

\* A progress of exactly 50 is "insufficient".
C12_Witness ==
    /\ IsMessageResult
    /\ RequestProgress = 50
    /\ Completeness.label = "insufficient"
    /\ Completeness.score = 35
    /\ result.quality_signals.detail_score = 50

C12_WitnessPartial ==
    /\ IsMessageResult
    /\ RequestProgress = 55
    /\ Completeness.label = "partial"

C12_WitnessComplete ==
    /\ IsMessageResult
    /\ RequestProgress = 70
    /\ ProcessedStage = 5
    /\ Completeness.label = "complete"
    /\ Completeness.score = 100

IsStartResult == result.kind = "start" /\ request.kind = "start"

\* The opening state and seed quality signals of a session.
IsSeed(r) ==
    /\ r.stage_state.current_stage = 1
    /\ r.stage_state.total_stages = 7
    /\ r.stage_state.stage_progress = 0
    /\ r.stage_state.overall_progress = 0
    /\ r.quality_signals.clarity.label = "medium"
    /\ r.quality_signals.completeness.label = "partial"
    /\ r.quality_signals.detail_score = 5

C13_SeedState == IsStartResult => (IsSeed(result) /\ session_stage = 1)

\* A session restarted after messages were processed starts the same way.
C13_SeedStep ==
    (request.kind = "message" /\ request'.kind = "start") =>
        (IsSeed(result') /\ session_stage' = 1)

\* C13 (Spec): start_session, for every plan_type (known or not) and every
\* user_context, returns current_stage 1, total_stages 7, stage_progress 0,
\* overall_progress 0, clarity "medium", completeness "partial" and
\* detail_score 0.05, whatever calls were made before it.
C13_StartSessionSeed == [] C13_SeedState /\ [][C13_SeedStep]_vars

\* A session started with an unknown plan type and a user context.
C13_Witness ==
    /\ IsStartResult
    /\ request.plan_type \notin DOMAIN PLAN_PERSONALITIES
    /\ request.user_context = "{referral}"
    /\ IsSeed(result)
    /\ result.persona = PLAN_PERSONALITIES["trial"]

(***************************************************************************)
(* Properties of the crew-analyze function (checked under SpecHandler)     *)
(***************************************************************************)
HandlerRan == "statusCode" \in DOMAIN response

\* The action of the last request, for a POST with a JSON object as body.
RequestedAction ==
    IF HandlerRan /\ event.httpMethod = "POST" /\ event.body.json = "object"
    THEN (IF "action" \in event.body.has THEN event.body.action ELSE "analysis")
    ELSE "none"

Called(name) == \E i \in 1..Len(calls) : calls[i] = name

\* The request was authenticated and was within its rate limit, so that its
\* fields were read.
ReachedValidation == Called("check_rate_limit") /\ response.statusCode # 429

\* The current_stage sent is one of the stages 1..7 (as a number, or as a
\* string of digits).
SentStageIsAStage ==
    /\ "current_stage" \in event.body.has
    /\ event.body.current_stage.numeric
    /\ event.body.current_stage.int \in 1..7

\* C14 as stated (SpecHandler): a conversation_message request whose
\* current_stage is not one of the stages 1..7 is answered with a validation
\* error (status 400) and is never processed by the engine as some stage.
C14_UnknownStageRejected ==
    (RequestedAction = "conversation_message" /\ ReachedValidation /\ ~SentStageIsAStage)
        => (response.statusCode = 400 /\ ~Called("process_message"))

\* A request with current_stage 8 is answered 200: it was processed as stage
\* 1, a reply was produced and the session moved to stage 2.
C14_Witness ==
    /\ RequestedAction = "conversation_message"
    /\ "current_stage" \in event.body.has
    /\ event.body.current_stage.int = 8
    /\ response.statusCode = 200
    /\ Called("process_message")
    /\ response.body.message.stage_state.previous_stage = 1
    /\ response.body.message.stage_state.current_stage = 2
    /\ response.body.message.agent_response # << >>
    /\ response.headers.stage = 2

MissingKey(fields) == \E f \in fields : f \notin event.body.has

RequiredFieldMissing ==
    \/ /\ RequestedAction = "conversation_message"
       /\ MissingKey({"session_id", "message", "current_stage"})
    \/ /\ RequestedAction = "analysis"
       /\ MissingKey({"strategic_question", "project_id"})

\* C16 (SpecHandler): a conversation_message request missing session_id,
\* message or current_stage, and an analysis request missing
\* strategic_question or project_id, never reaches process_message or
\* run_analysis, and once it is authenticated and within its rate limit it
\* is answered with status 400 (before that, with 401, 429 or 500).
C16_MissingFieldsRejected ==
    RequiredFieldMissing =>
        /\ ~Called("process_message")
        /\ ~Called("run_analysis")
        /\ ~Called("start_session")
        /\ response.statusCode \in {400, 401, 429, 500}
        /\ ReachedValidation => response.statusCode = 400

\* A message request without current_stage and an analysis request without
\* project_id, both authenticated, are answered 400.
C16_Witness ==
    /\ RequiredFieldMissing
    /\ ReachedValidation
    /\ RequestedAction = "conversation_message"
    /\ event.body.has = {"action", "session_id", "message", "conversation_history"}
    /\ message_truthy(event.body.message)
    /\ response.statusCode = 400
    /\ response.body.missing = << "current_stage" >>

C16_WitnessAnalysis ==
    /\ RequiredFieldMissing
    /\ ReachedValidation
    /\ RequestedAction = "analysis"
    /\ event.body.has = {"action", "strategic_question"}
    /\ response.statusCode = 400
    /\ response.body.missing = << "project_id" >>

CrewReturned == event.crew \in {"returns str", "returns CrewOutput", "returns None"}

\* C18 (SpecHandler): run_analysis tags metadata mode "crew" exactly when
\* the crew runner was available and its kickoff returned without raising;
\* otherwise the text is the heuristic fallback text and the mode is
\* "fallback"; the X-Analysis-Mode header carries the same value.
C18_ModeTagsFallback ==
    (HandlerRan /\ Called("run_analysis")) =>
        LET engine == response.body.metadata.engine
        IN /\ engine.mode = "crew" <=> CrewReturned
           /\ engine.mode \in {"crew", "fallback"}
           /\ engine.mode = "fallback" =>
                 response.body.result.raw_output = "Strategic analysis focused on: "
           /\ response.headers.mode = engine.mode

\* The runner is available but its kickoff raises: fallback text, tagged.
C18_Witness ==
    /\ HandlerRan
    /\ Called("run_analysis")
    /\ event.crew = "kickoff raises"
    /\ response.statusCode = 200
    /\ response.body.metadata.engine.mode = "fallback"
    /\ response.body.metadata.engine.error
    /\ response.headers.mode = "fallback"

C18_WitnessCrew ==
    /\ HandlerRan
    /\ Called("run_analysis")
    /\ event.crew = "returns CrewOutput"
    /\ response.body.metadata.engine.mode = "crew"
    /\ response.body.result.raw_output = "crew result"
    /\ response.headers.mode = "crew"

(***************************************************************************)
(* The engine as a function of its arguments (checked under SpecTimed)     *)
(***************************************************************************)
\* A call repeats the arguments of the call before it.
SameArguments == request.kind # "none" /\ request' = request

\* A result with the time of its snapshot blanked.
WithoutTimestamp(r) == [r EXCEPT !.stage_snapshot.updated_at = 0]

\* C19 as stated (SpecTimed): two calls of process_message or start_session
\* with identical arguments return identical results in every field,
\* stage_snapshot included, whenever they are made.
C19_SameArgumentsSameResult == [][SameArguments => result' = result]_vars

\* What does hold of every call (SpecTimed): the results of two calls with
\* identical arguments differ in stage_snapshot.updated_at alone, which is
\* the time of the call.
SameResultButTimestamp ==
    [][ /\ SameArguments => WithoutTimestamp(result') = WithoutTimestamp(result)
        /\ result' # result => result'.stage_snapshot.updated_at = now ]_vars

\* A result stamped with a later time than the first call's.
C19_Witness ==
    /\ IsMessageResult
    /\ now > 0
    /\ result.stage_snapshot.updated_at = now
    /\ result = process_message(request.message, request.current_stage,
                                Turns(request.history_len), now)
    /\ result # process_message(request.message, request.current_stage,
                                Turns(request.history_len), 0)

C19_WitnessStart ==
    /\ IsStartResult
    /\ result.stage_snapshot.updated_at > 0

(***************************************************************************)
(* Stage progress in a session (checked under Spec)                        *)
(***************************************************************************)
\* The last message was sent with every earlier turn of the session as its
\* conversation_history, and it is the first one processed at its stage:
\* the turn before it was processed at the stage below.
FirstMessageAfterAdvance ==
    /\ IsMessageResult
    /\ Len(history) >= 2
    /\ request.history_len = Len(history) - 1
    /\ history[Len(history)].stage = ProcessedStage
    /\ history[Len(history) - 1].stage = ProcessedStage - 1

\* C20 as stated (Spec): the first message processed after an advance to a
\* stage is scored with zero prior turns: its progress is 10, 20, 25 or 35
\* depending on length and specificity, whatever the number of turns
\* accumulated in the earlier stages.
C20_ProgressCountsStageTurns ==
    FirstMessageAfterAdvance => ComputedProgress \in {10, 20, 25, 35}

\* The first message of stage 2 is scored with the turns of stage 1: it
\* completes stage 2 at once.
C20_Witness ==
    /\ FirstMessageAfterAdvance
    /\ ProcessedStage = 2
    /\ Len(history) = 5
    /\ ComputedProgress = 95
    /\ result.stage_state.is_stage_complete
    /\ result.stage_state.current_stage = 3

(***************************************************************************)
(* Properties of the gate-evaluate function (checked under SpecGateHandler)*)
(***************************************************************************)
\* The handler has returned a response to the last event.
GateHandlerRan == event # [kind |-> "none"] /\ gate_task.pc = "idle"

\* The rows get_project_evidence returned to the last request.
FetchedRows == gate_task.evidence_list

\* The keys the body holds with a non-empty value; a body that is null
\* or not JSON holds none.
SentFields ==
    IF event.body.json # "object" THEN {}
    ELSE { k \in event.body.has :
             IF k = "project_id" THEN event.body.project_id # ""
             ELSE event.body.stage # "" }

\* The stage sent is the name of a gate.
NamesGate ==
    /\ event.body.stage_json = "string"
    /\ event.body.stage \in {"DESIRABILITY", "FEASIBILITY", "VIABILITY", "SCALE"}

\* A POST whose body lacks project_id or stage, or whose stage is not the
\* name of a gate.
FailsGateValidation ==
    /\ GateHandlerRan
    /\ event.httpMethod = "POST"
    /\ \/ SentFields # {"project_id", "stage"}
       \/ ~NamesGate

C15_Rejected ==
    FailsGateValidation => (response.statusCode = 400 /\ calls = << >>)

C15_ProjectKept ==
    FailsGateValidation' => project' = project

\* C15 as stated (SpecGateHandler): a POST that lacks project_id or stage,
\* or whose stage is none of DESIRABILITY, FEASIBILITY, VIABILITY, SCALE, is
\* answered with status 400 without any call to the Supabase client, the
\* evidence fetch, the gate engine or the project update, and the project
\* row stays as it was.
C15_InvalidRequestRejectedFirst ==
    [] C15_Rejected /\ [][C15_ProjectKept]_vars

\* A POST whose body is null lacks both fields and is answered 500,
\* although the table holds evidence.
C15_Witness ==
    /\ FailsGateValidation
    /\ event.body.json = "null"
    /\ SentFields = {}
    /\ evidence # << >>
    /\ response.statusCode = 500
    /\ calls = << >>

\* A stage sent as a JSON array is answered 500 as well.
C15_WitnessArray ==
    /\ FailsGateValidation
    /\ SentFields = {"project_id", "stage"}
    /\ event.body.stage_json = "array"
    /\ response.statusCode = 500

\* What does hold: such a request is answered 400 or 500 before anything is
\* fetched, evaluated or updated, and 400 when its body is a JSON object (or
\* left out, which the handler reads as the empty object) and the stage a
\* string.
C15_NothingFetched ==
    FailsGateValidation =>
        /\ response.statusCode \in {400, 500}
        /\ calls = << >>
        /\ FetchedRows = << >>
        /\ (event.body.json \in {"absent", "object"}
              /\ (SentFields = {"project_id", "stage"} => event.body.stage_json = "string"))
           => response.statusCode = 400

C15_RejectedLeavesProject == [][C15_ProjectKept]_vars

\* A row is well-formed when it holds the three keys, a strength among
\* weak, medium, strong and a quality_score that reads as a number.
WellFormed(e) ==
    /\ e.has = {"type", "strength", "quality_score"}
    /\ e.strength \in {"weak", "medium", "strong"}
    /\ e.quality.json \in {"number", "numeric"}

\* A valid request whose evidence fetch returned rows.
EvidenceFetched ==
    /\ GateHandlerRan
    /\ event.httpMethod # "OPTIONS"
    /\ event.body.json = "object"
    /\ SentFields = {"project_id", "stage"}
    /\ NamesGate
    /\ event.supabase = "configured"
    /\ event.fetch = "ok"
    /\ FetchedRows # << >>

\* C17 (SpecGateHandler): whatever rows the fetch returned, the malformed
\* ones are skipped one by one and the request is answered with status 200,
\* the gate having been evaluated over exactly the well-formed rows.
C17_MalformedRowsSkipped ==
    EvidenceFetched =>
        /\ response.statusCode = 200
        /\ response.body.evidence_count = Len(SelectSeq(FetchedRows, WellFormed))
        /\ \E i \in 1..Len(calls) : calls[i] = "evaluate_gate"

\* A row whose quality_score is null, among well-formed rows, ends the
\* request with status 500 before the gate is evaluated.
C17_Witness ==
    /\ EvidenceFetched
    /\ \E i \in 1..Len(FetchedRows) :
         /\ FetchedRows[i].has = {"type", "strength", "quality_score"}
         /\ FetchedRows[i].strength \in {"weak", "medium", "strong"}
         /\ FetchedRows[i].quality.json = "null"
    /\ \A i \in 1..Len(FetchedRows) :
         WellFormed(FetchedRows[i]) \/ FetchedRows[i].quality.json = "null"
    /\ Len(SelectSeq(FetchedRows, WellFormed)) = 10
    /\ response.statusCode = 500
    /\ \A i \in 1..Len(calls) : calls[i] # "evaluate_gate"

\* Rows that are malformed in any other way are skipped and the request is
\* answered over the remaining rows.
C17_OtherMalformedRowsSkipped ==
    (EvidenceFetched /\ \A i \in 1..Len(FetchedRows) : FetchedRows[i].quality.json # "null"
                                                      \/ "type" \notin FetchedRows[i].has) =>
        /\ response.statusCode = 200
        /\ response.body.evidence_count = Len(SelectSeq(FetchedRows, WellFormed))

(***************************************************************************)
(* Authentication and rate limiting of crew-analyze (under SpecHandler)    *)
(***************************************************************************)
CalledEngine == Called("start_session") \/ Called("process_message") \/ Called("run_analysis")

\* A POST with a supported action that carries no Authorization header, or
\* a token that the Supabase client does not verify.
Unauthenticated ==
    /\ RequestedAction \in SupportedActions
    /\ event.supabase = "configured"
    /\ \/ event.authorization = ""
       \/ token_of(event.authorization) # "token-u1"

C21_Rejected ==
    Unauthenticated =>
        /\ response.statusCode = 401
        /\ ~Called("check_rate_limit")
        /\ ~CalledEngine

C21_OnlyHealthCheckOpen ==
    (HandlerRan /\ response.statusCode = 200 /\ event.httpMethod # "GET") =>
        (Called("authenticate_request") /\ ~Unauthenticated)

\* C21 (SpecHandler): a POST with a supported action and no authorization
\* header, or with a token that fails verification, is answered with status
\* 401 without the rate limiter or an engine having been called, and only
\* the GET health check is answered 200 without authentication.
C21_UnauthenticatedGets401 == C21_Rejected /\ C21_OnlyHealthCheckOpen

\* A token on which the Supabase client raises is answered with status 500.
C21_Witness ==
    /\ Unauthenticated
    /\ event.authorization = "Bearer token-malformed"
    /\ response.statusCode = 500
    /\ calls = << "authenticate_request" >>

\* Whatever the status, an unauthenticated request reaches neither the rate
\* limiter nor an engine and leaves the rate-limit store as it was.
C21_UnauthenticatedNeverServed ==
    /\ [] (Unauthenticated => /\ response.statusCode \in {401, 500}
                              /\ ~Called("check_rate_limit")
                              /\ ~CalledEngine)
    /\ [] C21_OnlyHealthCheckOpen
    /\ [][Unauthenticated' => rate_limit_store' = rate_limit_store]_vars

C21_WitnessNoHeader ==
    /\ Unauthenticated
    /\ event.authorization = ""
    /\ response.statusCode = 401
    /\ calls = << >>
    /\ rate_limit_store # << >>

(***************************************************************************)
(* What gate-evaluate persists (checked under SpecGateHandler)             *)
(***************************************************************************)
\* The records the gate was evaluated over: the well-formed rows, formatted.
EvaluatedRecords ==
    LET w == SelectSeq(FetchedRows, WellFormed)
    IN [i \in 1..Len(w) |-> format_row(w[i])]

\* calculate_evidence_quality of the evaluated records, in thousandths.
EvaluatedQuality ==
    LET q == calculate_evidence_quality(EvaluatedRecords)
    IN (q.sum * 10) \div q.count

\* The last request evaluated the gate over at least one record and its
\* update of the project row succeeded.
GatePersisted ==
    /\ EvidenceFetched
    /\ response.statusCode = 200
    /\ event.update = "ok"
    /\ EvaluatedRecords # << >>

C22_StatusAndCountsPersisted ==
    GatePersisted =>
        /\ project.gate_status = response.body.status
        /\ project.gate_status = evaluate_gate(event.body.stage, EvaluatedRecords).status
        /\ project.evidence_count = response.body.evidence_count
        /\ project.evidence_count = Len(EvaluatedRecords)
        /\ project.experiments_count = response.body.experiments_count
        /\ project.experiments_count = count_experiments(EvaluatedRecords)

\* C22 (SpecGateHandler): after a request on a project with at least one
\* well-formed record, the project row holds the returned status, the number
\* of evaluated records, the number of evaluated experiments, and as
\* evidence_quality the mean quality_score of the evaluated records.
C22_ProjectHoldsGateResult ==
    /\ C22_StatusAndCountsPersisted
    /\ GatePersisted => project.evidence_quality = EvaluatedQuality

\* One strong interview of quality 0.90: the row holds the readiness score.
C22_Witness ==
    /\ GatePersisted
    /\ event.body.stage = "DESIRABILITY"
    /\ EvaluatedRecords = << [type |-> "interview", strength |-> "strong", quality_score |-> 90] >>
    /\ EvaluatedQuality = 900
    /\ project.evidence_quality # 900
    /\ project.evidence_quality =
           calculate_gate_readiness_score(event.body.stage, EvaluatedRecords)

\* The row holds the readiness score as evidence_quality.
C22_ReadinessPersistedAsQuality ==
    GatePersisted => project.evidence_quality =
                         calculate_gate_readiness_score(event.body.stage, EvaluatedRecords)

\* The last request attempted the update of the project row and it failed.
UpdateFailed ==
    /\ GateHandlerRan
    /\ event.httpMethod # "OPTIONS"
    /\ event.update = "fails"
    /\ \E i \in 1..Len(calls) : calls[i] = "update"

\* The values the last request sent to the project row.
UpdateValues == gate_handler(event, FetchedRows).update

\* The answer is the one given when the update succeeds.
C28_SameAnswer ==
    UpdateFailed' =>
        /\ response'.statusCode = 200
        /\ response' = update_except("ok", gate_handler(event', FetchedRows').response)
        /\ response'.body.status = evaluate_gate(event'.body.stage, EvaluatedRecords').status
        /\ response'.body.evidence_count = Len(EvaluatedRecords')
        /\ response'.body.experiments_count = count_experiments(EvaluatedRecords')

\* C28 as stated (SpecGateHandler): when the update of the project row
\* fails, the request is still answered with status 200 and with the
\* status, reasons, readiness score and counts it has when the update
\* succeeds, and the project row is left as it was.
C28_UpdateFailureLeavesRow ==
    [][C28_SameAnswer /\ (UpdateFailed' => project' = project)]_vars

\* C28 amended (SpecGateHandler): when the update of the project row fails,
\* the request is still answered with status 200 and with the status,
\* reasons, readiness score and counts it has when the update succeeds; the
\* handler writes nothing else, so the project row is as the failed update
\* left it: as it was, or holding the values of this request.
C28_UpdateFailureIgnored ==
    [][C28_SameAnswer /\ (UpdateFailed' =>
          project' \in {project, gate_handler(event', FetchedRows').update})]_vars

\* The update fails on a row that an earlier request for another stage
\* wrote: the row keeps the earlier values.
C28_Witness ==
    /\ UpdateFailed
    /\ response.statusCode = 200
    /\ EvaluatedRecords # << >>
    /\ project # [kind |-> "none"]
    /\ project # UpdateValues

\* The update raised and the row holds the values of the request.
C28_WitnessWritten ==
    /\ UpdateFailed
    /\ response.statusCode = 200
    /\ project = UpdateValues

(***************************************************************************)
(* Properties of check_rate_limit (checked under SpecRateLimit)            *)
(***************************************************************************)
\* The positions in the log of the calls for a key that were allowed.
AllowedCalls(log, user_id, bucket) ==
    { i \in 1..Len(log) : /\ log[i].user_id = user_id
                          /\ log[i].bucket = bucket
                          /\ log[i].allowed }

\* The allowed calls for the key made less than RateWindow before time t
\* and not after it.
AllowedWithin(log, user_id, bucket, t) ==
    { i \in AllowedCalls(log, user_id, bucket) :
        log[i].utcnow <= t /\ t - log[i].utcnow < RateWindow }

C23_AtMostLimitPerWindow ==
    \A k \in RateLimitKeys : \A i \in AllowedCalls(calls, k[1], k[2]) :
        Cardinality(AllowedWithin(calls, k[1], k[2], calls[i].utcnow)) <= RateLimit

C23_StoreBounded ==
    \A k \in DOMAIN rate_limit_store : Len(rate_limit_store[k]) <= RateLimit

\* What a call for the key at the present time would return.
Outcome(store, k) ==
    LET rl == check_rate_limit(store, k[1], k[2], RateLimit, RateWindow, now)
    IN [allowed |-> rl.allowed, remaining |-> rl.remaining]

\* A call changes neither the timestamps of another key nor what a call for
\* another key returns, and its own outcome follows from the earlier
\* allowed calls for its own key alone.
C23_KeysIndependent ==
    (calls' # calls) =>
        /\ \A k \in RateLimitKeys \ { <<event'.user_id, event'.bucket>> } :
              /\ (k \in DOMAIN rate_limit_store') = (k \in DOMAIN rate_limit_store)
              /\ k \in DOMAIN rate_limit_store => rate_limit_store'[k] = rate_limit_store[k]
              /\ Outcome(rate_limit_store', k) = Outcome(rate_limit_store, k)
        /\ response'.allowed =
              (Cardinality(AllowedWithin(calls, event'.user_id, event'.bucket, now)) < RateLimit)

\* C23 (SpecRateLimit): for every key, under a clock that never goes back,
\* the allowed calls inside any interval shorter than the window number at
\* most limit, the stored list of a key never holds more than limit
\* timestamps, and calls for one key never change the outcome for another.
C23_RateLimitHolds ==
    /\ [] (C23_AtMostLimitPerWindow /\ C23_StoreBounded)
    /\ [][C23_KeysIndependent]_vars

\* A key has used up its limit and is denied while an older allowed call
\* has already left the window and another key has been served meanwhile.
C23_Witness ==
    /\ Len(calls) >= RateLimit + 3
    /\ ~calls[Len(calls)].allowed
    /\ \E i \in AllowedCalls(calls, event.user_id, event.bucket) :
          now - calls[i].utcnow >= RateWindow
    /\ Cardinality(AllowedWithin(calls, event.user_id, event.bucket, now)) = RateLimit
    /\ \E i \in 1..Len(calls) : calls[i].user_id # event.user_id /\ calls[i].allowed
    /\ \E i \in 1..Len(calls) : calls[i].bucket # event.bucket /\ calls[i].allowed

\* The timestamps the store holds for the key of a call.
Retained(store, user_id, bucket) ==
    IF <<user_id, bucket>> \in DOMAIN store THEN store[<<user_id, bucket>>] ELSE << >>

\* The calls for the key that were denied.
DeniedCalls(log, user_id, bucket) ==
    { i \in 1..Len(log) : /\ log[i].user_id = user_id
                          /\ log[i].bucket = bucket
                          /\ ~log[i].allowed }

\* A denied call leaves of the key's timestamps those still inside the
\* window and adds none.
C24_DenialRecordsNothing ==
    (calls' # calls /\ ~response'.allowed) =>
        Retained(rate_limit_store', event'.user_id, event'.bucket) =
            SelectSeq(Retained(rate_limit_store, event'.user_id, event'.bucket),
                      LAMBDA ts : now - ts < RateWindow)

\* A call made when the oldest retained timestamp of its key is at least
\* the window old is allowed.
C24_AllowedOnceOldestExpired ==
    LET retained == Retained(rate_limit_store, event'.user_id, event'.bucket)
    IN (calls' # calls /\ retained # << >> /\ now - retained[1] >= RateWindow) =>
          response'.allowed

\* C24 (SpecRateLimit): a denied call records no timestamp, and the first
\* call for a key made once its oldest retained timestamp is at least the
\* window old is allowed, however many calls were denied in between.
C24_DenialsDoNotExtendLockout ==
    [][C24_DenialRecordsNothing /\ C24_AllowedOnceOldestExpired]_vars

\* A key is allowed again after two denials, as soon as its oldest allowed
\* call has left the window, while its later allowed calls are still inside.
C24_Witness ==
    /\ calls # << >>
    /\ calls[Len(calls)].allowed
    /\ Cardinality(DeniedCalls(calls, event.user_id, event.bucket)) >= 2
    /\ \E i \in AllowedCalls(calls, event.user_id, event.bucket) :
          /\ now - calls[i].utcnow = RateWindow
          /\ \E j \in DeniedCalls(calls, event.user_id, event.bucket) :
                j > i /\ calls[j].utcnow < now
    /\ Len(Retained(rate_limit_store, event.user_id, event.bucket)) = RateLimit

(***************************************************************************)
(* When the rate-limit slot is charged (checked under SpecHandlerClock)    *)
(***************************************************************************)
\* The request handled by this step is a POST with a supported action by an
\* authenticated caller.
AuthenticatedRequest ==
    /\ event.httpMethod = "POST"
    /\ event.body.json = "object"
    /\ RequestedAction \in SupportedActions
    /\ event.supabase = "configured"
    /\ event.authorization # ""
    /\ token_of(event.authorization) = "token-u1"

WindowOf(action) ==
    CASE action = "conversation_start" -> START_WINDOW
      [] action = "conversation_message" -> CONVERSATION_WINDOW
      [] OTHER -> ANALYSIS_WINDOW

\* The timestamps of the caller's bucket that are still inside its window.
Unexpired(store, action) ==
    SelectSeq(Retained(store, "u1", action), LAMBDA ts : now - ts < WindowOf(action))

\* A step of the handler: the clock stands still.
C25_Charged ==
    (now' = now /\ AuthenticatedRequest' /\ response'.statusCode # 429) =>
        /\ response'.statusCode \in {200, 400, 500}
        /\ Retained(rate_limit_store', "u1", RequestedAction') =
               Append(Unexpired(rate_limit_store, RequestedAction'), now)
        /\ \A k \in DOMAIN rate_limit_store \ { <<"u1", RequestedAction'>> } :
               k \in DOMAIN rate_limit_store' /\ rate_limit_store'[k] = rate_limit_store[k]
        /\ SubSeq(calls', 1, 2) = << "authenticate_request", "check_rate_limit" >>

C25_NotCharged ==
    (now' = now /\ ~(AuthenticatedRequest' /\ response'.statusCode # 429)) =>
        /\ response'.statusCode \in {200, 400, 401, 405, 429, 500}
        /\ response'.statusCode = 200 => event'.httpMethod = "GET"
        /\ response'.statusCode \in {400, 500} => ~Called("check_rate_limit")'
        /\ rate_limit_store' = rate_limit_store

\* C25 (SpecHandlerClock): an authenticated POST with a supported action
\* that is not rate-limited adds one timestamp, the present time, to the
\* caller's bucket of that action, right after authentication and also
\* when the request is then answered 400 or 500; every other request (401,
\* 405, 429, 400 for an unsupported action or a bad body) leaves the
\* rate-limit store as it was.
C25_SlotChargedBeforeValidation == [][C25_Charged /\ C25_NotCharged]_vars

\* A message request without its message, made after time has passed, is
\* answered 400 and has used a slot.
C25_Witness ==
    /\ HandlerRan
    /\ AuthenticatedRequest
    /\ RequestedAction = "conversation_message"
    /\ response.statusCode = 400
    /\ ~CalledEngine
    /\ Retained(rate_limit_store, "u1", "conversation_message") = << now >>
    /\ now > 0

C25_WitnessError ==
    /\ HandlerRan
    /\ AuthenticatedRequest
    /\ response.statusCode = 500
    /\ Retained(rate_limit_store, "u1", "conversation_message") # << >>

C25_WitnessLimited ==
    /\ HandlerRan
    /\ response.statusCode = 429
    /\ Len(Retained(rate_limit_store, "u1", "conversation_start")) = START_RATE_LIMIT
    /\ now > 0

(***************************************************************************)
(* The system actions of process_message (checked under Spec)              *)
(***************************************************************************)
C29_TriggerAtStageSeven ==
    IsMessageResult =>
        (result.system_actions.trigger_workflow
            <=> (request.current_stage = 7 /\ RequestProgress >= 85))

C29_CheckpointOnCompletion ==
    IsMessageResult =>
        /\ result.system_actions.save_checkpoint = result.stage_state.is_stage_complete
        /\ result.stage_state.is_stage_complete
             <=> RequestProgress >=
                   CONVERSATION_STAGES[result.stage_state.previous_stage].progress_threshold

\* In the present session a turn processed at stage k was followed by a turn
\* processed at stage k + 1: the turn at stage k returned is_stage_complete.
StageCompletedInSession(k) ==
    \E i \in 1..(Len(history) - 1) : history[i].stage = k /\ history[i + 1].stage = k + 1

C29_TriggerAfterAllStages ==
    (IsMessageResult /\ result.system_actions.trigger_workflow) =>
        \A k \in 1..6 : StageCompletedInSession(k)

\* C29 (Spec): trigger_workflow is true exactly for a message processed at
\* stage 7 with a stage progress of at least 85, save_checkpoint exactly
\* when the stage is complete, and in a session trigger_workflow is never
\* true before each of the stages 1..6 has returned is_stage_complete.
C29_SystemActions ==
    /\ C29_TriggerAtStageSeven
    /\ C29_CheckpointOnCompletion
    /\ C29_TriggerAfterAllStages

\* The tenth message of a session triggers the workflow at a progress of 85.
C29_Witness ==
    /\ IsMessageResult
    /\ request.current_stage = 7
    /\ RequestProgress = 85
    /\ result.system_actions.trigger_workflow
    /\ result.system_actions.save_checkpoint
    /\ \A k \in 1..6 : StageCompletedInSession(k)

\* At stage 7 a progress of 80 neither triggers nor saves a checkpoint.
C29_WitnessBelow ==
    /\ IsMessageResult
    /\ request.current_stage = 7
    /\ RequestProgress = 80
    /\ ~result.system_actions.trigger_workflow
    /\ ~result.system_actions.save_checkpoint

(***************************************************************************)
(* Termination of a session (checked under SpecSession)                    *)
(***************************************************************************)
WorkflowTriggered == IsMessageResult /\ result.system_actions.trigger_workflow

\* After twelve messages the workflow has been triggered whatever was sent.
C30_TriggeredByTwelfthMessage ==
    (started /\ Len(history) >= 12) => WorkflowTriggered /\ session_stage = 7

\* C30 (SpecSession): in a session whose caller appends every turn to the
\* history and feeds back the returned stage, the conversation reaches stage
\* 7 and returns trigger_workflow true after finitely many messages (twelve
\* at most), whatever the messages contain.
C30_SessionReachesWorkflow ==
    /\ [] C30_TriggeredByTwelfthMessage
    /\ <> (WorkflowTriggered /\ session_stage = 7)

\* Twelve empty messages: the twelfth triggers the workflow.
C30_Witness ==
    /\ WorkflowTriggered
    /\ session_stage = 7
    /\ Len(history) = 12
    /\ request.message = [pad |-> 0, chars |-> 0, marker |-> FALSE, words |-> {}]
    /\ \A k \in 1..6 : StageCompletedInSession(k)
    /\ \A i \in 1..6 : history[i].stage = 1

(***************************************************************************)
(* The onboarding agent:                                                   *)
(* src/agentuity-agent/agentuity_agents/Onboarding/agent.py and            *)
(* conversation_handler.py.  A message is its text as far as the agent     *)
(* reads it: the text, the number of words split() finds in it, and which  *)
(* of the strings the code looks for it holds.  Every request runs in its  *)
(* own task; a task gives way to the others only where the code awaits, at *)
(* kv.get and at kv.set.                                                   *)
(***************************************************************************)

ENFORCE_LIMITS == FALSE

ONBOARDING_STAGES == <<
    [id |-> 1, name |-> "business_idea",
     questions |-> <<"What problem are you solving and for whom?",
                     "Can you describe your business idea in 2-3 sentences?",
                     "What inspired you to pursue this particular idea?">>,
     validation |-> <<"problem", "solution", "motivation">>],
    [id |-> 2, name |-> "target_market",
     questions |-> <<"Who are your target customers? Be as specific as possible.",
                     "What are their main pain points or frustrations?",
                     "How do they currently solve this problem?">>,
     validation |-> <<"demographics", "pain_points", "current_solutions">>],
    [id |-> 3, name |-> "value_proposition",
     questions |-> <<"What makes your solution better than existing alternatives?",
                     "What specific benefits will customers get from your product/service?",
                     "How would you describe your unique value in one sentence?">>,
     validation |-> <<"differentiation", "benefits", "unique_value">>],
    [id |-> 4, name |-> "business_model",
     questions |-> <<"How will you make money? (subscription, one-time purchase, marketplace, etc.)",
                     "What will you charge for your product/service?",
                     "What are your main cost drivers?">>,
     validation |-> <<"revenue_model", "pricing", "cost_structure">>],
    [id |-> 5, name |-> "validation_plan",
     questions |-> <<"How will you validate demand for your solution?",
                     "What's your plan for getting your first 10 customers?",
                     "What metrics will indicate product-market fit?">>,
     validation |-> <<"validation_approach", "customer_acquisition", "success_metrics">>] >>

\* PLAN_LIMITS[plan_type]["messages_per_session"], the trial plan's for an
\* unknown plan.
messages_per_session(plan_type) ==
    CASE plan_type = "founder" -> 200
      [] plan_type = "consultant" -> 500
      [] plan_type = "enterprise" -> 1000
      [] OTHER -> 100

\* OnboardingPersonality.STAGE_PROMPTS[stage]["intro"], as get_response
\* returns it.
get_response_intro(stage) ==
    CASE stage = "business_idea" ->
           "Let's start by understanding the core of your business idea. I'm excited to learn about what you're building!"
      [] stage = "target_market" ->
           "Now let's dive into who will benefit most from your solution."
      [] stage = "value_proposition" ->
           "Let's articulate what makes your solution truly unique and valuable."
      [] stage = "business_model" ->
           "Now let's explore how you'll create and capture value."
      [] stage = "validation_plan" ->
           "Finally, let's plan how you'll test and validate your assumptions."
      [] OTHER -> "Let's continue exploring your idea."

\* add_personality puts a phrase drawn at random from TRAITS[trait] before
\* the response; the phrase is stood for by the name of its list.
add_personality(base_response, trait) == <<trait>> \o base_response

\* get_encouragement returns one of five statements drawn at random; the
\* statement is stood for by one name.
get_encouragement == "encouragement"

\* `word in message_lower` and `"?" in message`: holds is the set of the
\* strings of stage_keywords, positive_words and negative_words that occur
\* anywhere in the lower-cased text, inside a longer word too, with "?"
\* when the text has a question mark.
contains(message, word) == word \in message.holds

stage_keywords(stage) ==
    CASE stage = "business_idea" ->
           <<"solve", "problem", "solution", "help", "improve", "automate">>
      [] stage = "target_market" ->
           <<"customers", "users", "businesses", "consumers", "market", "segment">>
      [] stage = "value_proposition" ->
           <<"unique", "better", "faster", "cheaper", "easier", "different">>
      [] stage = "business_model" ->
           <<"subscription", "saas", "marketplace", "freemium", "license", "revenue">>
      [] stage = "validation_plan" ->
           <<"test", "mvp", "prototype", "feedback", "iterate", "measure">>
      [] OTHER -> << >>

positive_words == {"excited", "great", "love", "amazing", "excellent", "fantastic"}
negative_words == {"worried", "concerned", "difficult", "challenge", "problem", "issue"}

\* ConversationEnhancer.extract_key_insights; completeness in hundredths.
extract_key_insights(message, stage) ==
    LET positive_count == Cardinality({w \in positive_words : contains(message, w)})
        negative_count == Cardinality({w \in negative_words : contains(message, w)})
    IN [keywords |-> SelectSeq(stage_keywords(stage), LAMBDA kw : contains(message, kw)),
        sentiment |-> IF positive_count > negative_count THEN "positive"
                      ELSE IF negative_count > positive_count THEN "concerned"
                      ELSE "neutral",
        completeness |-> IF message.split * 5 < 100 THEN message.split * 5 ELSE 100,
        needs_clarification |->
            (IF message.split < 10 THEN <<"Could you provide more detail?">> ELSE << >>)
            \o (IF contains(message, "?") THEN <<"Let me clarify that for you.">> ELSE << >>)]

\* OnboardingSession.__init__
OnboardingSession(session_id, user_id, plan_type, utcnow) ==
    [session_id |-> session_id, user_id |-> user_id, plan_type |-> plan_type,
     current_stage |-> 1, conversation_history |-> << >>, stage_data |-> << >>,
     created_at |-> utcnow, last_activity |-> utcnow, message_count |-> 0,
     overall_progress |-> 0]

\* OnboardingSession.add_message
add_message(session, role, content, metadata, utcnow) ==
    [session EXCEPT
        !.conversation_history = Append(@, [role |-> role, content |-> content,
                                            timestamp |-> utcnow, metadata |-> metadata]),
        !.message_count = IF role = "user" THEN @ + 1 ELSE @,
        !.last_activity = utcnow]

\* dict.update: the keys of data are written over those of old.
dict_update(old, data) ==
    [k \in DOMAIN old \cup DOMAIN data |-> IF k \in DOMAIN data THEN data[k] ELSE old[k]]

\* OnboardingSession.update_stage_data
update_stage_data(session, stage_name, data) ==
    LET stage_data == session.stage_data
        old == IF stage_name \in DOMAIN stage_data THEN stage_data[stage_name] ELSE << >>
    IN [session EXCEPT !.stage_data =
            [n \in DOMAIN stage_data \cup {stage_name} |->
                IF n = stage_name THEN dict_update(old, data) ELSE stage_data[n]]]

\* OnboardingSession.calculate_progress, in percent.
calculate_progress(session) ==
    LET completed_stages ==
            {k \in DOMAIN ONBOARDING_STAGES :
                /\ ONBOARDING_STAGES[k].name \in DOMAIN session.stage_data
                /\ Cardinality(DOMAIN session.stage_data[ONBOARDING_STAGES[k].name])
                     >= Len(ONBOARDING_STAGES[k].validation)}
    IN (Cardinality(completed_stages) * 100) \div Len(ONBOARDING_STAGES)

\* OnboardingSession.get_current_stage answers None past the last stage.
has_current_stage(session) == session.current_stage <= Len(ONBOARDING_STAGES)
get_current_stage(session) == ONBOARDING_STAGES[session.current_stage]

\* OnboardingSession.to_dict
to_dict(session) == [session EXCEPT !.overall_progress = calculate_progress(session)]

SESSION_NOT_FOUND == [success |-> FALSE, error |-> [code |-> "SESSION_NOT_FOUND", retryable |-> FALSE]]

\* context.kv.get: None for a key that is not stored.
kv_get(store, key) == IF key \in DOMAIN store THEN store[key] ELSE NoSession

\* context.kv.set
kv_set(store, key, value) ==
    [k \in DOMAIN store \cup {key} |-> IF k = key THEN value ELSE store[k]]

MESSAGE_LIMIT_EXCEEDED == [success |-> FALSE, error |-> [code |-> "MESSAGE_LIMIT_EXCEEDED", retryable |-> FALSE]]

\* The reply of handle_onboarding_message once every stage is behind.
all_stages_completed(session) ==
    [success |-> TRUE,
     agentResponse |-> <<"Great! We've covered all the key areas. Let me now analyze your responses and generate your strategic report.">>,
     stageInfo |-> [currentStage |-> session.current_stage,
                    totalStages |-> Len(ONBOARDING_STAGES), completed |-> TRUE],
     systemActions |-> <<"triggerAnalysis">>,
     nextStep |-> "complete"]

\* handle_onboarding_message from the return of kv.get to the call of kv.set:
\* the session rebuilt from session_data, the reply, and whether the session
\* is written back.
handle_onboarding_message(session_data, req, utcnow) ==
    LET rebuilt == dict_update(OnboardingSession(req.session_id, session_data.user_id,
                                                 session_data.plan_type, utcnow),
                               session_data)
        asked == add_message(rebuilt, "user", req.message, [intent |-> req.intent], utcnow)
    IN IF ENFORCE_LIMITS /\ rebuilt.message_count >= messages_per_session(rebuilt.plan_type)
       THEN [set |-> FALSE, session |-> rebuilt, response |-> MESSAGE_LIMIT_EXCEEDED]
       ELSE IF ~has_current_stage(asked)
       THEN [set |-> FALSE, session |-> asked, response |-> all_stages_completed(asked)]
       ELSE
       LET current_stage == get_current_stage(asked)
           stage_name == current_stage.name
           insights == extract_key_insights(req.message, stage_name)
           extracted_data == [raw_response |-> req.message, timestamp |-> utcnow,
                              insights |-> insights, keywords |-> insights.keywords,
                              sentiment |-> insights.sentiment]
           updated == update_stage_data(asked, stage_name, extracted_data)
           stage_questions == current_stage.questions
           current_question_index == Cardinality(DOMAIN updated.stage_data[stage_name]) - 1
           more_questions == current_question_index < Len(stage_questions) - 1
           moved == IF more_questions THEN updated
                    ELSE [updated EXCEPT !.current_stage = @ + 1]
           agent_response ==
               IF more_questions
               THEN add_personality(<<"Thank you for sharing that.",
                                      stage_questions[current_question_index + 2]>>,
                                    IF insights.sentiment = "positive"
                                    THEN "encouraging" ELSE "empathetic")
               ELSE IF has_current_stage(moved)
               THEN <<get_encouragement, get_response_intro(get_current_stage(moved).name),
                      get_current_stage(moved).questions[1]>>
               ELSE add_personality(<<"Perfect! I now have all the information I need. Let me analyze your responses and create your strategic report.">>,
                                    "professional")
           answered == add_message(moved, "assistant", agent_response, << >>, utcnow)
       IN [set |-> TRUE, session |-> answered,
           response |-> [success |-> TRUE,
                         agentResponse |-> agent_response,
                         stageInfo |-> [currentStage |-> answered.current_stage,
                                        totalStages |-> Len(ONBOARDING_STAGES),
                                        stageName |-> stage_name,
                                        progress |-> calculate_progress(answered)],
                         analytics |-> [messageCount |-> answered.message_count,
                                        stageCompletion |-> Cardinality(DOMAIN answered.stage_data)]]]

\* What run answers when the handler raises.
INTERNAL_ERROR == [success |-> FALSE, error |-> [code |-> "INTERNAL_ERROR", retryable |-> TRUE]]

\* The reply of handle_onboarding_start; get_current_stage answers None for
\* a session past the last stage, the subscript raises TypeError and run
\* answers INTERNAL_ERROR.
onboarding_started(session) ==
    IF ~has_current_stage(session) THEN INTERNAL_ERROR ELSE
    [success |-> TRUE, sessionId |-> session.session_id,
     firstQuestion |-> get_current_stage(session).questions[1],
     stageInfo |-> [currentStage |-> session.current_stage,
                    totalStages |-> Len(ONBOARDING_STAGES),
                    stageName |-> get_current_stage(session).name]]

\* The session ids uuid4 can still give out, the ids requests name, the
\* callers and plans, and the messages sent.
FreshSessionIds == {"onb_1"}
SessionIds == FreshSessionIds \cup {"onb_0"}
AgentUsers == {"u1"}
AgentPlans == {"trial"}
AgentMessages ==
    { [text |-> "We love to help customers", split |-> 5,
       holds |-> {"love", "help", "customers"}],
      [text |-> "It was problematic, why?", split |-> 4,
       holds |-> {"problem", "?"}] }

\* handle_onboarding_start without resume_session_id: a new session under a
\* fresh id is stored and the first question is returned.
StartOnboarding(i, user_id, plan_type) ==
    /\ tasks[i].pc = "idle"
    /\ \E session_id \in FreshSessionIds \ DOMAIN kv :
        LET session == OnboardingSession(session_id, user_id, plan_type, now)
        IN /\ kv' = kv_set(kv, session_id, to_dict(session))
           /\ tasks' = [tasks EXCEPT ![i] =
                  [pc |-> "done",
                   request |-> [action |-> "start", user_id |-> user_id,
                                plan_type |-> plan_type],
                   session_data |-> NoSession,
                   response |-> onboarding_started(session)]]
    /\ UNCHANGED <<gateVars, convVars, now, handlerVars>>

\* handle_onboarding_start with resume_session_id: the stored session is
\* read and its current question returned, or SESSION_NOT_FOUND.  The
\* session is not written back.
ResumeOnboarding(i, user_id, plan_type, resume_session_id) ==
    /\ tasks[i].pc = "idle"
    /\ LET session_data == kv_get(kv, resume_session_id)
           session == dict_update(OnboardingSession(resume_session_id, user_id,
                                                    plan_type, now), session_data)
       IN tasks' = [tasks EXCEPT ![i] =
              [pc |-> "done",
               request |-> [action |-> "start", user_id |-> user_id,
                            plan_type |-> plan_type,
                            resume_session_id |-> resume_session_id],
               session_data |-> session_data,
               response |-> IF session_data = NoSession THEN SESSION_NOT_FOUND
                            ELSE onboarding_started(session)]]
    /\ UNCHANGED <<kv, gateVars, convVars, now, handlerVars>>

\* handle_onboarding_message up to the return of `await context.kv.get`:
\* the task holds what the store held at that moment.
GetSession(i, session_id, message) ==
    /\ tasks[i].pc = "idle"
    /\ LET session_data == kv_get(kv, session_id)
           req == [action |-> "message", session_id |-> session_id,
                   message |-> message, intent |-> "answer"]
       IN tasks' = [tasks EXCEPT ![i] =
              IF session_data = NoSession
              THEN [pc |-> "done", request |-> req, session_data |-> NoSession,
                    response |-> SESSION_NOT_FOUND]
              ELSE [pc |-> "got", request |-> req, session_data |-> session_data,
                    response |-> NoResponse]]
    /\ UNCHANGED <<kv, gateVars, convVars, now, handlerVars>>

\* handle_onboarding_message from there to its return: the reply is made
\* from the task's copy of the session, and `await context.kv.set` writes
\* that copy over whatever the store holds by then.
SetSession(i) ==
    /\ tasks[i].pc = "got"
    /\ LET h == handle_onboarding_message(tasks[i].session_data, tasks[i].request, now)
       IN /\ kv' = IF h.set THEN kv_set(kv, tasks[i].request.session_id, to_dict(h.session))
                   ELSE kv
          /\ tasks' = [tasks EXCEPT ![i] = [@ EXCEPT !.pc = "done", !.response = h.response]]
    /\ UNCHANGED <<gateVars, convVars, now, handlerVars>>

\* The caller has the reply; the next request may come.
Reply(i) ==
    /\ tasks[i].pc = "done"
    /\ tasks' = [tasks EXCEPT ![i] = IdleTask]
    /\ UNCHANGED <<kv, gateVars, convVars, now, handlerVars>>

AgentStep(i) ==
    \/ \E user_id \in AgentUsers, plan_type \in AgentPlans : StartOnboarding(i, user_id, plan_type)
    \/ \E user_id \in AgentUsers, plan_type \in AgentPlans, session_id \in SessionIds :
           ResumeOnboarding(i, user_id, plan_type, session_id)
    \/ \E session_id \in SessionIds, message \in AgentMessages : GetSession(i, session_id, message)
    \/ SetSession(i)
    \/ Reply(i)

\* One request at a time.
NextOnboarding == AgentStep(1)

SpecOnboarding == InitConv /\ [][NextOnboarding]_vars

\* Requests handled concurrently.
NextOnboardingConcurrent == \E i \in Requests : AgentStep(i)

SpecOnboardingConcurrent == InitConv /\ [][NextOnboardingConcurrent]_vars

(***************************************************************************)
(* C26: questions asked and stages left by handle_onboarding_message       *)
(***************************************************************************)

\* Request i was a message to a stored session with a stage still open, and
\* its reply is ready.
MessageAnswered(i) ==
    /\ tasks[i].pc = "done"
    /\ tasks[i].request.action = "message"
    /\ tasks[i].session_data # NoSession
    /\ has_current_stage(tasks[i].session_data)

\* The user messages a session has taken since its last stage was opened.
AnsweredAtStage(session) ==
    LET h == session.conversation_history
        opened == {j \in DOMAIN h : h[j].role = "assistant"
                                    /\ h[j].content[1] = get_encouragement}
    IN Cardinality({j \in DOMAIN h : /\ h[j].role = "user"
                                     /\ \A p \in opened : p < j})

\* C26: while the current stage still has unasked questions, the reply to a
\* message holds the stage's next question and current_stage stays as it
\* was; only the message that answers the last question of the stage moves
\* current_stage on, so a stage of three questions takes three messages.
C26_StageLeftAfterItsQuestions ==
    MessageAnswered(1) =>
        LET before == tasks[1].session_data
            stage == get_current_stage(before)
            answered == AnsweredAtStage(before)
            reply == tasks[1].response
            stored == kv[tasks[1].request.session_id]
        IN IF answered + 1 < Len(stage.questions)
           THEN /\ reply.agentResponse[Len(reply.agentResponse)] = stage.questions[answered + 2]
                /\ reply.stageInfo.currentStage = before.current_stage
                /\ stored.current_stage = before.current_stage
           ELSE /\ reply.stageInfo.currentStage = before.current_stage + 1
                /\ stored.current_stage = before.current_stage + 1

\* C26, what the code does: every message to a session with a stage open
\* moves current_stage on by one, whatever was asked before.
C26_EveryMessageLeavesTheStage ==
    MessageAnswered(1) =>
        /\ tasks[1].response.stageInfo.currentStage = tasks[1].session_data.current_stage + 1
        /\ kv[tasks[1].request.session_id].current_stage
             = tasks[1].session_data.current_stage + 1
        /\ kv[tasks[1].request.session_id].message_count
             = tasks[1].session_data.message_count + 1

\* C26: the first message of a new session has been answered: the reply is
\* the first question of the second stage and the stored session is at
\* stage 2 after one user message.
C26_Witness ==
    /\ MessageAnswered(1)
    /\ tasks[1].session_data.current_stage = 1
    /\ tasks[1].session_data.message_count = 0
    /\ tasks[1].response.agentResponse[3] = ONBOARDING_STAGES[2].questions[1]
    /\ tasks[1].response.stageInfo.currentStage = 2
    /\ kv[tasks[1].request.session_id].current_stage = 2
    /\ kv[tasks[1].request.session_id].message_count = 1

(***************************************************************************)
(* C27: two message requests for one session handled concurrently          *)
(***************************************************************************)

\* Both requests were messages for one session, both read the same stored
\* session at kv.get (so neither saw the other's write), and both replies
\* are ready.
HandledConcurrently ==
    /\ MessageAnswered(1)
    /\ MessageAnswered(2)
    /\ tasks[1].request.session_id = tasks[2].request.session_id
    /\ tasks[1].session_data = tasks[2].session_data

\* The contents of the user messages of a stored session, in order.
UserMessages(session) ==
    LET users == SelectSeq(session.conversation_history, LAMBDA e : e.role = "user")
    IN [j \in DOMAIN users |-> users[j].content]

\* C27: after two message requests for the same session were handled
\* concurrently, the stored session reflects both: message_count has grown
\* by two, both user messages are in conversation_history, and
\* current_stage has moved by no more than the two messages.
C27_BothMessagesStored ==
    HandledConcurrently =>
        LET before == tasks[1].session_data
            stored == kv[tasks[1].request.session_id]
        IN /\ stored.message_count = before.message_count + 2
           /\ Len(UserMessages(stored)) = Len(UserMessages(before)) + 2
           /\ \A i \in Requests :
                \E j \in DOMAIN UserMessages(stored) :
                    /\ j > Len(UserMessages(before))
                    /\ UserMessages(stored)[j] = tasks[i].request.message
           /\ stored.current_stage <= before.current_stage + 2

\* C27: two different messages were handled concurrently and the stored
\* session holds one of them only: message_count has grown by one.
C27_Witness ==
    /\ HandledConcurrently
    /\ tasks[1].request.message # tasks[2].request.message
    /\ LET before == tasks[1].session_data
           stored == kv[tasks[1].request.session_id]
       IN /\ stored.message_count = before.message_count + 1
          /\ Len(UserMessages(stored)) = Len(UserMessages(before)) + 1
          /\ \E i \in Requests :
                \A j \in DOMAIN UserMessages(stored) :
                    j > Len(UserMessages(before))
                        => UserMessages(stored)[j] # tasks[i].request.message
====
